---- MODULE Spec2Model ----
(***************************************************************************)
(* Model of the collaborator handlers of the GitHub plugin for the         *)
(* rest-dynamic-controller: the GET / POST / PATCH / DELETE orchestrators  *)
(* of package collaborator, the collaborator-status resolver, the          *)
(* invitation locator and the permission translation helpers.              *)
(*                                                                         *)
(* One step of a handler is one upstream round trip together with all the  *)
(* code the handler runs until it blocks on the next upstream call or      *)
(* returns.  The upstream (api.github.com) is the environment: each call   *)
(* is answered by a transport failure or by a status and a body.           *)
(***************************************************************************)
EXTENDS Integers, Sequences, FiniteSets, TLC

(***************************************************************************)
(* JSON values.  A value is a record whose single field names its kind:    *)
(*   [s |-> "txt"]  string        [cs |-> <<"b","o">>] string kept as its  *)
(*   [n |-> 5]      number                             characters (logins) *)
(*   [null |-> TRUE]              [t |-> rec]  string built by Sprintf     *)
(*   [o |-> f]      object, f a function from keys to values               *)
(*   [a |-> seq]    array                                                  *)
(* A body is a byte string: [raw |-> txt] when it is not JSON, otherwise   *)
(* [canon |-> b, val |-> v], canon telling whether the bytes are the ones  *)
(* json.Marshal produces for v (sorted keys, no white space).              *)
(***************************************************************************)
JStr(x) == [s |-> x]
JNum(x) == [n |-> x]
JNull == [null |-> TRUE]
JObj(f) == [o |-> f]
JArr(q) == [a |-> q]
JText(r) == [t |-> r]

IsStr(v) == "s" \in DOMAIN v
IsObj(v) == "o" \in DOMAIN v
IsArr(v) == "a" \in DOMAIN v
IsNull(v) == "null" \in DOMAIN v
IsRaw(b) == "raw" \in DOMAIN b

EmptyMap == [k \in {} |-> JNull]
Put(m, k, v) == [x \in (DOMAIN m) \cup {k} |-> IF x = k THEN v ELSE m[x]]
Del(m, k) == [x \in (DOMAIN m) \ {k} |-> m[x]]

NoBody == [raw |-> ""]
BodyLen0(b) == b = NoBody

\* json.Unmarshal(body, &data) with data a map[string]interface{}:
\* fails on non-JSON bytes and on any value that is not an object or null;
\* null leaves the map nil.
UnmarshalMap(b) ==
    IF IsRaw(b) THEN [ok |-> FALSE, nil |-> TRUE, m |-> EmptyMap]
    ELSE IF IsObj(b.val) THEN [ok |-> TRUE, nil |-> FALSE, m |-> b.val.o]
    ELSE IF IsNull(b.val) THEN [ok |-> TRUE, nil |-> TRUE, m |-> EmptyMap]
    ELSE [ok |-> FALSE, nil |-> TRUE, m |-> EmptyMap]

\* json.Marshal of a non-nil map
MarshalMap(m) == [canon |-> TRUE, val |-> JObj(m)]

(***************************************************************************)
(* Results of the helpers that return ([]byte, error).                     *)
(***************************************************************************)
Ok(b) == [ok |-> TRUE, panic |-> FALSE, body |-> b]
Fail == [ok |-> FALSE, panic |-> FALSE, body |-> NoBody]
Panic == [ok |-> FALSE, panic |-> TRUE, body |-> NoBody]

\* variant: a missing field reads as null instead of failing
ReadFieldFromBody_MissingIsNull(body, fieldName) ==
    LET u == UnmarshalMap(body) IN
    IF ~u.ok THEN [ok |-> FALSE, v |-> JNull]
    ELSE IF fieldName \notin DOMAIN u.m THEN [ok |-> TRUE, v |-> JNull]
    ELSE [ok |-> TRUE, v |-> u.m[fieldName]]

\* ReadFieldFromBody: the root field fieldName of a JSON object
ReadFieldFromBody(body, fieldName) ==
    LET u == UnmarshalMap(body) IN
    IF ~u.ok THEN [ok |-> FALSE, v |-> JNull]
    ELSE IF fieldName \notin DOMAIN u.m THEN [ok |-> FALSE, v |-> JNull]
    ELSE [ok |-> TRUE, v |-> u.m[fieldName]]

\* AddFieldToResponse: data[fieldName] = fieldValue, re-marshalled; the
\* assignment to the nil map that `null` decodes to panics.
AddFieldToResponse(body, fieldName, fieldValue) ==
    LET u == UnmarshalMap(body) IN
    IF ~u.ok THEN Fail
    ELSE IF u.nil THEN Panic
    ELSE Ok(MarshalMap(Put(u.m, fieldName, fieldValue)))

\* fmt.Sprintf("%s", v) of a decoded JSON value: a string prints as itself,
\* every other value as Go's bad-verb rendering of it.
SprintfS(v) == IF IsStr(v) THEN v ELSE [badverb |-> v]

\* variant: the role name is copied to `permission` without translation
RoleToPermission_Untranslated(roleName) == roleName

\* The switch of CorrectGitHubUserPermissionField: role_name -> permission
RoleToPermission(roleName) ==
    CASE roleName = "read" -> "pull"
      [] roleName = "write" -> "push"
      [] roleName = "admin" -> "admin"
      [] roleName = "maintain" -> "maintain"
      [] roleName = "triage" -> "triage"
      [] OTHER -> roleName

\* variant: the field is corrected only when the body has no `permission` yet
CorrectGitHubUserPermissionField_KeepsExisting(body) ==
    LET u == UnmarshalMap(body) IN
    IF ~u.ok THEN Fail
    ELSE IF ~("role_name" \in DOMAIN u.m /\ IsStr(u.m["role_name"])) THEN Ok(body)
    ELSE IF "permission" \in DOMAIN u.m THEN Ok(body)
    ELSE Ok(MarshalMap(Put(u.m, "permission", JStr(RoleToPermission(u.m["role_name"].s)))))

CorrectGitHubUserPermissionField(body) ==
    LET u == UnmarshalMap(body) IN
    IF ~u.ok THEN Fail
    ELSE IF ~("role_name" \in DOMAIN u.m /\ IsStr(u.m["role_name"])) THEN Ok(body)
    ELSE LET permission == RoleToPermission(u.m["role_name"].s) IN
         IF permission = "" THEN Ok(body)
         ELSE Ok(MarshalMap(Put(u.m, "permission", JStr(permission))))

\* variant: the value is copied to `permissions` without translation
PermissionToPermissions_Identity(permission) == permission

\* variant: the two translated levels are exchanged
PermissionToPermissions_Exchanged(permission) ==
    CASE permission = "pull" -> "write"
      [] permission = "push" -> "read"
      [] OTHER -> permission

\* The switch of CorrectGitHubUserPermissionsFieldReqBody: permission -> permissions
PermissionToPermissions(permission) ==
    CASE permission = "pull" -> "read"
      [] permission = "push" -> "write"
      [] permission = "admin" -> "admin"
      [] permission = "maintain" -> "maintain"
      [] permission = "triage" -> "triage"
      [] OTHER -> permission

CorrectGitHubUserPermissionsFieldReqBody(body) ==
    LET u == UnmarshalMap(body) IN
    IF ~u.ok THEN Fail
    ELSE IF ~("permission" \in DOMAIN u.m /\ IsStr(u.m["permission"])) THEN Ok(body)
    ELSE LET permissions == PermissionToPermissions(u.m["permission"].s) IN
         Ok(MarshalMap(Del(Put(u.m, "permissions", JStr(permissions)), "permission")))

(***************************************************************************)
(* Response flattener (utils.ResponseFlattener).  A source path is kept as *)
(* the sequence of its dot-separated parts.                                *)
(***************************************************************************)
RECURSIVE extractValue(_, _)
extractValue(data, parts) ==
    IF Len(parts) = 0 THEN [ok |-> FALSE, v |-> JNull]
    ELSE IF Head(parts) \notin DOMAIN data THEN [ok |-> FALSE, v |-> JNull]
    ELSE IF Len(parts) = 1 THEN [ok |-> TRUE, v |-> data[Head(parts)]]
    ELSE IF ~IsObj(data[Head(parts)]) THEN [ok |-> FALSE, v |-> JNull]
    ELSE extractValue(data[Head(parts)].o, Tail(parts))

\* variant: a target that is already a root key is not overwritten
RECURSIVE FlattenInto_FirstWins(_, _, _)
FlattenInto_FirstWins(flattened, data, mappings) ==
    IF Len(mappings) = 0 THEN [ok |-> TRUE, m |-> flattened]
    ELSE LET e == extractValue(data, Head(mappings).src) IN
         IF ~e.ok THEN [ok |-> FALSE, m |-> EmptyMap]
         ELSE IF Head(mappings).tgt \in DOMAIN flattened
         THEN FlattenInto_FirstWins(flattened, data, Tail(mappings))
         ELSE FlattenInto_FirstWins(Put(flattened, Head(mappings).tgt, e.v), data, Tail(mappings))

\* variant: a mapping whose source path does not resolve is skipped
RECURSIVE FlattenInto_SkipsMissing(_, _, _)
FlattenInto_SkipsMissing(flattened, data, mappings) ==
    IF Len(mappings) = 0 THEN [ok |-> TRUE, m |-> flattened]
    ELSE LET e == extractValue(data, Head(mappings).src) IN
         IF ~e.ok THEN FlattenInto_SkipsMissing(flattened, data, Tail(mappings))
         ELSE FlattenInto_SkipsMissing(Put(flattened, Head(mappings).tgt, e.v), data, Tail(mappings))

RECURSIVE FlattenInto(_, _, _)
FlattenInto(flattened, data, mappings) ==
    IF Len(mappings) = 0 THEN [ok |-> TRUE, m |-> flattened]
    ELSE LET e == extractValue(data, Head(mappings).src) IN
         IF ~e.ok THEN [ok |-> FALSE, m |-> EmptyMap]
         ELSE FlattenInto(Put(flattened, Head(mappings).tgt, e.v), data, Tail(mappings))

FlattenBytes(body, mappings) ==
    LET u == UnmarshalMap(body) IN
    IF ~u.ok THEN Fail
    ELSE LET f == FlattenInto(u.m, u.m, mappings) IN
         IF f.ok THEN Ok(MarshalMap(f.m)) ELSE Fail

GitHubUserPermissionFlattener ==
    << [src |-> <<"user", "permissions">>, tgt |-> "permissions"],
       [src |-> <<"user", "html_url">>, tgt |-> "html_url"],
       [src |-> <<"user", "id">>, tgt |-> "id"] >>

FlattenGitHubUserPermissionBytes(body) == FlattenBytes(body, GitHubUserPermissionFlattener)

(***************************************************************************)
(* Invitations.  A decoded GitHubInvitation is kept by the two fields the  *)
(* handlers read: [id |-> n, login |-> chars].                             *)
(***************************************************************************)
\* unicode simple case folding, on the letters of the model's alphabet
Fold(c) == CASE c = "B" -> "b" [] c = "O" -> "o" [] c = "A" -> "a" [] OTHER -> c

\* variant: logins are compared case-sensitively
EqualFold_Exact(x, y) == x = y

EqualFold(x, y) ==
    /\ Len(x) = Len(y)
    /\ \A i \in 1..Len(x) : Fold(x[i]) = Fold(y[i])

parseInvitations(inviteBody) ==
    IF IsRaw(inviteBody) THEN [ok |-> FALSE, list |-> <<>>]
    ELSE IF IsArr(inviteBody.val) THEN [ok |-> TRUE, list |-> inviteBody.val.a]
    ELSE IF IsNull(inviteBody.val) THEN [ok |-> TRUE, list |-> <<>>]
    ELSE [ok |-> FALSE, list |-> <<>>]

NoInvitation == [id |-> 0, login |-> <<>>]

RECURSIVE scanInvitations(_, _)
scanInvitations(invitations, username) ==
    IF Len(invitations) = 0 THEN [found |-> FALSE, inv |-> NoInvitation]
    ELSE IF EqualFold(Head(invitations).login, username)
         THEN [found |-> TRUE, inv |-> Head(invitations)]
         ELSE scanInvitations(Tail(invitations), username)

getUserInvitationFromPage(inviteBody, username) ==
    LET p == parseInvitations(inviteBody) IN
    IF ~p.ok THEN [found |-> FALSE, inv |-> NoInvitation]
    ELSE scanInvitations(p.list, username)

(***************************************************************************)
(* http.ResponseWriter.  code = 0 until the status line is committed;      *)
(* hdrCT is the Content-Type now in the header map, sentCT the one that    *)
(* was in it when the status line was committed; body is the sequence of   *)
(* chunks written.                                                         *)
(***************************************************************************)
NewWriter == [code |-> 0, hdrCT |-> "", sentCT |-> "", body |-> <<>>]

WriteHeader(wr, c) ==
    IF wr.code = 0 THEN [wr EXCEPT !.code = c, !.sentCT = wr.hdrCT] ELSE wr

BodyAllowed(c) == c \notin {204, 304}

Write(wr, chunk) ==
    LET w1 == WriteHeader(wr, 200) IN
    IF BodyAllowed(w1.code) THEN [w1 EXCEPT !.body = Append(@, chunk)] ELSE w1

SetContentTypeJSON(wr) == [wr EXCEPT !.hdrCT = "application/json"]

Text(r) == [text |-> r]

writeErrorResponse(wr, statusCode, message) ==
    Write(WriteHeader(wr, statusCode), Text(message))

writeJSONResponse(wr, statusCode, body) ==
    Write(WriteHeader(SetContentTypeJSON(wr), statusCode), body)

\* variant: the upstream body is replaced by the fallback text
ForwardUpstream_DropsBody(wr, out) ==
    Write(WriteHeader(wr, out.code), Text([msg |-> "Error", status |-> out.code]))

\* the "Forward error from GitHub API" block shared by the mutating branches
ForwardUpstream(wr, out) ==
    LET w1 == WriteHeader(wr, out.code) IN
    IF ~BodyLen0(out.body) THEN Write(SetContentTypeJSON(w1), out.body)
    ELSE Write(w1, Text([msg |-> "Error", status |-> out.code]))

(***************************************************************************)
(* Inputs: inbound requests and the answers of the upstream.               *)
(***************************************************************************)
Procs == {1, 2}
Owners == {"acme"}
Repos == {"app"}
Usernames == { <<"B", "o">>, <<"b", "O">> }
AuthHeaders == {"", "token A", "token B"}
Methods == {"GET", "POST", "PATCH", "DELETE"}

\* request bodies of POST and PATCH
Doc(c, v) == [canon |-> c, val |-> v]
PermBody(c, v) == Doc(c, JObj("permission" :> v))
RequestBodies ==
    { [raw |-> "invalid json"],
      Doc(TRUE, JNull),
      Doc(FALSE, JObj("other_field" :> JStr("value"))),
      PermBody(FALSE, JStr("pull")),
      PermBody(TRUE, JStr("push")),
      PermBody(FALSE, JStr("admin")),
      PermBody(TRUE, JStr("owner")),
      PermBody(TRUE, JNum(5)),
      Doc(FALSE, JObj(("permission" :> JStr("pull")) @@ ("permissions" :> JStr("admin"))
                      @@ ("note" :> JNum(7)))) }

InboundBodies(method) ==
    IF method \in {"POST", "PATCH"} THEN RequestBodies ELSE {NoBody}

\* upstream answers
Statuses == {200, 201, 204, 403, 404, 500}
TransportErr == [err |-> TRUE]
IsErr(out) == "err" \in DOMAIN out
Answer(c, b) == [code |-> c, body |-> b]
ErrDoc == Doc(FALSE, JObj("message" :> JStr("upstream says no")))

CheckOutcomes == {TransportErr} \cup {Answer(c, NoBody) : c \in Statuses}
MutOutcomes ==
    {TransportErr} \cup {Answer(c, NoBody) : c \in Statuses}
                   \cup {Answer(c, ErrDoc) : c \in {200, 403}}

\* pages of the invitations collection
PerPage == 30
MaxPages == 3
Invitation(i, l) == [id |-> i, login |-> l]
Invitations ==
    { Invitation(1, <<"b", "o">>), Invitation(2, <<"B", "O">>), Invitation(3, <<"a", "l">>) }
Filler(k) == [i \in 1..k |-> Invitation(100 + i, <<"z">>)]
FillSizes == {0, PerPage - 1}
Edge == { <<>> } \cup { <<inv>> : inv \in Invitations }
PageLists == { pre \o Filler(k) \o post : pre \in Edge, post \in Edge, k \in FillSizes }
PageBodies ==
    { Doc(TRUE, JArr(l)) : l \in PageLists }
    \cup { [raw |-> "<html>"], Doc(TRUE, JNull), ErrDoc }
PageOutcomes ==
    {TransportErr}
    \cup { Answer(200, b) : b \in PageBodies }
    \cup { Answer(c, b) : c \in Statuses \ {200},
                          b \in {ErrDoc, Doc(TRUE, JArr(<<Invitation(1, <<"b", "o">>),
                                                           Invitation(3, <<"a", "l">>)>>))} }

\* bodies of the permission sub-resource
UserObj(perms) ==
    JObj(("login" :> JStr("bo")) @@ ("id" :> JNum(12345))
         @@ ("html_url" :> JStr("https://github.com/bo")) @@ ("permissions" :> perms))
PermsObj == JObj(("admin" :> JStr("false")) @@ ("pull" :> JStr("true")))
PermissionDoc(role) ==
    Doc(FALSE, JObj(("permission" :> JStr("read")) @@ ("role_name" :> role)
                    @@ ("user" :> UserObj(PermsObj))))
PermissionBodies ==
    { PermissionDoc(JStr(r)) : r \in {"read", "write", "admin", "maintain", "triage", "custom", ""} }
    \cup { PermissionDoc(JNum(3)),
           Doc(FALSE, JObj("role_name" :> JStr("write"))),
           Doc(FALSE, JObj("user" :> UserObj(PermsObj))),
           Doc(TRUE, JNull), [raw |-> "<html>"], NoBody }
PermOutcomes == {TransportErr} \cup {Answer(c, b) : c \in {200, 404}, b \in PermissionBodies}

\* answers to the team-repository request: a status, a body and the
\* Content-Type header of the upstream response ("" when it has none)
Orgs == {"acme"}
TeamSlugs == {"devs"}
Routes == {"collaborator", "teamrepository"}
AnswerCT(c, b, ct) == [code |-> c, body |-> b, ct |-> ct]
OwnerObj == JObj(("login" :> JStr("originalowner")) @@ ("id" :> JNum(67890)))
TeamRepoDoc(role) ==
    Doc(FALSE, JObj(("id" :> JNum(12345)) @@ ("name" :> JStr("app")) @@ ("owner" :> OwnerObj)
                    @@ ("permissions" :> PermsObj) @@ ("role_name" :> role)))
TeamRepoBodies ==
    { TeamRepoDoc(JStr(r)) :
         r \in {"read", "write", "admin", "maintain", "triage", "READ", "Write", "custom"} }
    \cup { TeamRepoDoc(JNum(3)),
           Doc(FALSE, JObj(("id" :> JNum(12345)) @@ ("permission" :> JStr("read")))),
           Doc(TRUE, JNull), [raw |-> "<html>"], NoBody }
UpstreamContentTypes == {"", "application/json; charset=utf-8"}
TeamRepoOutcomes ==
    {TransportErr}
    \cup { AnswerCT(200, b, ct) : b \in TeamRepoBodies, ct \in UpstreamContentTypes }
    \cup { AnswerCT(c, b, ct) : c \in {204, 403, 404, 500}, b \in {NoBody, ErrDoc},
                                 ct \in UpstreamContentTypes }

(***************************************************************************)
(* State.                                                                  *)
(***************************************************************************)
VARIABLES
    active,   \* the request slots the server is serving
    inbound,  \* inbound[p]: the request slot p is serving
    pc,       \* pc[p]: where the handler of slot p is
    loc,      \* loc[p]: the handler's locals that live across upstream calls
    w,        \* w[p]: the http.ResponseWriter of the request
    calls,    \* calls[p]: the upstream requests of this request, with answers
    upstream, \* what is known of the upstream: nothing, or the state of a repository
    flat      \* a call of ResponseFlattener.FlattenBytes: its input and its result

vars == <<active, inbound, pc, loc, w, calls, upstream, flat>>

\* nothing is assumed about the upstream: any answer to any request
AnyUpstream == [any |-> TRUE]
\* no call of FlattenBytes under way
NoFlatten == [body |-> NoBody, mappings |-> <<>>, called |-> FALSE, result |-> Fail]

NoRequest ==
    [route |-> "", method |-> "", org |-> "", team |-> "", owner |-> "", repo |-> "",
     username |-> <<>>, auth |-> "", body |-> NoBody, cancelled |-> FALSE]
NoLocals == [page |-> 0, inv |-> NoInvitation, permission |-> JNull]

Init ==
    /\ active = {1}
    /\ inbound = [p \in Procs |-> NoRequest]
    /\ pc = [p \in Procs |-> "idle"]
    /\ loc = [p \in Procs |-> NoLocals]
    /\ w = [p \in Procs |-> NewWriter]
    /\ calls = [p \in Procs |-> <<>>]
    /\ upstream = AnyUpstream
    /\ flat = NoFlatten

\* the mux hands a request to its handler
Receive(p) ==
    /\ p \in active
    /\ pc[p] = "idle"
    /\ \/ \E m \in Methods, o \in Owners, r \in Repos, u \in Usernames, a \in AuthHeaders :
            \E b \in InboundBodies(m) :
               inbound' = [inbound EXCEPT ![p] =
                   [route |-> "collaborator", method |-> m, org |-> "", team |-> "",
                    owner |-> o, repo |-> r, username |-> u, auth |-> a, body |-> b,
                    cancelled |-> FALSE]]
       \/ \E g \in Orgs, t \in TeamSlugs, o \in Owners, r \in Repos, a \in AuthHeaders :
               inbound' = [inbound EXCEPT ![p] =
                   [route |-> "teamrepository", method |-> "GET", org |-> g, team |-> t,
                    owner |-> o, repo |-> r, username |-> <<>>, auth |-> a, body |-> NoBody,
                    cancelled |-> FALSE]]
    /\ pc' = [pc EXCEPT ![p] = "start"]
    /\ loc' = [loc EXCEPT ![p] = NoLocals]
    /\ w' = [w EXCEPT ![p] = NewWriter]
    /\ calls' = [calls EXCEPT ![p] = <<>>]
    /\ UNCHANGED <<active, upstream, flat>>

(***************************************************************************)
(* Upstream requests.                                                      *)
(***************************************************************************)
URL(res, o, r, u, i, pp, pg) ==
    [res |-> res, owner |-> o, repo |-> r, username |-> u, id |-> i, perPage |-> pp, page |-> pg]
CollaboratorURL(o, r, u) == URL("collaborators/{username}", o, r, u, 0, 0, 0)
PermissionURL(o, r, u) == URL("collaborators/{username}/permission", o, r, u, 0, 0, 0)
InvitationsURL(o, r, pp, pg) == URL("invitations", o, r, <<>>, 0, pp, pg)
\* variant: the invitation id is not put in the path
InvitationURL_LosesId(o, r, i) == URL("invitations/{id}", o, r, <<>>, 0, 0, 0)
InvitationURL(o, r, i) == URL("invitations/{id}", o, r, <<>>, i, 0, 0)

NoHeaders == [k \in {} |-> ""]
\* variant: the header is set even when the inbound request has none
AuthorizationHeader_AlwaysSet(authHeader) == "Authorization" :> authHeader
AuthorizationHeader(authHeader) ==
    IF authHeader # "" THEN "Authorization" :> authHeader ELSE NoHeaders

\* variant: the body is never attached to the request
makeGitHubRequest_DropsBody(method, url, authHeader, body) ==
    [method |-> method, url |-> url, ctx |-> "background",
     header |-> AuthorizationHeader(authHeader),
     body |-> NoBody]

\* the request baseHandler.makeGitHubRequest hands to h.Client.Do; built by
\* http.NewRequest, its context is context.Background()
makeGitHubRequest(method, url, authHeader, body) ==
    [method |-> method, url |-> url, ctx |-> "background",
     header |-> AuthorizationHeader(authHeader)
                @@ (IF ~BodyLen0(body) THEN "Content-Type" :> "application/json" ELSE NoHeaders),
     body |-> IF ~BodyLen0(body) THEN body ELSE NoBody]

\* the request findUserInvitationHelper hands to client.Do
InvitationsRequest(o, r, perPage, page, authHeader) ==
    [method |-> "GET", url |-> InvitationsURL(o, r, perPage, page), ctx |-> "background",
     header |-> AuthorizationHeader(authHeader), body |-> NoBody]

(***************************************************************************)
(* The repository at the upstream, as far as one user is concerned: the    *)
(* user is a collaborator, has a pending invitation (id) or neither, with  *)
(* the permission last written.  GitHubAnswer is the answer of the         *)
(* upstream to a request in state s, GitHubApply the state it leaves.      *)
(***************************************************************************)
GitHubNone == [kind |-> "none", id |-> 0, permission |-> JNull]
GitHubCollaborator(perm) == [kind |-> "collaborator", id |-> 0, permission |-> perm]
GitHubInvited(i, perm) == [kind |-> "invited", id |-> i, permission |-> perm]
NewInvitationId == 2
InvitationOf(i) == IF i = 1 THEN Invitation(1, <<"b", "o">>) ELSE Invitation(2, <<"B", "O">>)
RequestedPermission(req, field) ==
    LET f == ReadFieldFromBody(req.body, field) IN IF f.ok THEN f.v ELSE JNull

GitHubAnswer(s, req) ==
    CASE req.url.res = "collaborators/{username}" /\ req.method = "GET" ->
           IF s.kind = "collaborator" THEN Answer(204, NoBody) ELSE Answer(404, NoBody)
      [] req.url.res = "collaborators/{username}" /\ req.method = "PUT" ->
           IF s.kind = "collaborator" THEN Answer(204, NoBody) ELSE Answer(201, NoBody)
      [] req.url.res = "collaborators/{username}" /\ req.method = "DELETE" ->
           Answer(204, NoBody)
      [] req.url.res = "invitations" ->
           IF s.kind = "invited" /\ req.url.page = 1
           THEN Answer(200, Doc(TRUE, JArr(<<InvitationOf(s.id)>>)))
           ELSE Answer(200, Doc(TRUE, JArr(<<>>)))
      [] req.url.res = "invitations/{id}" /\ req.method = "PATCH" ->
           IF s.kind = "invited" /\ s.id = req.url.id
           THEN Answer(200, NoBody) ELSE Answer(404, NoBody)
      [] req.url.res = "invitations/{id}" /\ req.method = "DELETE" ->
           IF s.kind = "invited" /\ s.id = req.url.id
           THEN Answer(204, NoBody) ELSE Answer(404, NoBody)
      [] OTHER -> Answer(404, NoBody)

GitHubApply(s, req) ==
    CASE req.url.res = "collaborators/{username}" /\ req.method = "PUT" ->
           IF s.kind = "collaborator"
           THEN GitHubCollaborator(RequestedPermission(req, "permission"))
           ELSE GitHubInvited(IF s.kind = "invited" THEN s.id ELSE NewInvitationId,
                              RequestedPermission(req, "permission"))
      [] req.url.res = "collaborators/{username}" /\ req.method = "DELETE" ->
           IF s.kind = "collaborator" THEN GitHubNone ELSE s
      [] req.url.res = "invitations/{id}" /\ req.method = "PATCH" ->
           IF s.kind = "invited" /\ s.id = req.url.id
           THEN GitHubInvited(s.id, RequestedPermission(req, "permissions")) ELSE s
      [] req.url.res = "invitations/{id}" /\ req.method = "DELETE" ->
           IF s.kind = "invited" /\ s.id = req.url.id THEN GitHubNone ELSE s
      [] OTHER -> s

\* h.Client.Do(req): the round trip of slot p, answered by out; cancelled
\* tells whether the inbound request was cancelled when the round trip
\* started.  A request bound to a cancelled context fails.
Do(p, req, out) ==
    /\ calls' = [calls EXCEPT ![p] =
                    Append(@, [req |-> req, out |-> out, cancelled |-> inbound[p].cancelled])]
    /\ (req.ctx = "inbound" /\ inbound[p].cancelled) => IsErr(out)
    /\ IF upstream = AnyUpstream
       THEN UNCHANGED upstream
       ELSE /\ out = GitHubAnswer(upstream.now, req)
            /\ upstream' = [upstream EXCEPT !.now = GitHubApply(@, req)]

\* a step of a handler without a round trip
NoCall == UNCHANGED <<calls, upstream>>

StatusNotCollaborator == 0
StatusCollaborator == 1
StatusPendingInvitation == 2

\* variant: an unexpected status of the check is not an error
checkCollaboratorStatus_UnexpectedIsNotCollaborator(out) ==
    IF IsErr(out) THEN [status |-> StatusNotCollaborator, err |-> TRUE]
    ELSE CASE out.code = 204 -> [status |-> StatusCollaborator, err |-> FALSE]
           [] OTHER -> [status |-> StatusNotCollaborator, err |-> FALSE]

\* variant: a 404 of the check is taken for "is a collaborator"
checkCollaboratorStatus_NotFoundIsCollaborator(out) ==
    IF IsErr(out) THEN [status |-> StatusNotCollaborator, err |-> TRUE]
    ELSE CASE out.code = 204 -> [status |-> StatusCollaborator, err |-> FALSE]
           [] out.code = 404 -> [status |-> StatusCollaborator, err |-> FALSE]
           [] OTHER -> [status |-> StatusNotCollaborator, err |-> TRUE]

\* variant: a 500 of the check is taken for "is a collaborator"
checkCollaboratorStatus_ServerErrorIsCollaborator(out) ==
    IF IsErr(out) THEN [status |-> StatusNotCollaborator, err |-> TRUE]
    ELSE CASE out.code = 204 -> [status |-> StatusCollaborator, err |-> FALSE]
           [] out.code = 404 -> [status |-> StatusNotCollaborator, err |-> FALSE]
           [] out.code = 500 -> [status |-> StatusCollaborator, err |-> FALSE]
           [] OTHER -> [status |-> StatusNotCollaborator, err |-> TRUE]

\* checkCollaboratorStatus, given the answer to its request
checkCollaboratorStatus(out) ==
    IF IsErr(out) THEN [status |-> StatusNotCollaborator, err |-> TRUE]
    ELSE CASE out.code = 204 -> [status |-> StatusCollaborator, err |-> FALSE]
           [] out.code = 404 -> [status |-> StatusNotCollaborator, err |-> FALSE]
           [] OTHER -> [status |-> StatusNotCollaborator, err |-> TRUE]

Finish(p, wr) ==
    /\ w' = [w EXCEPT ![p] = wr]
    /\ pc' = [pc EXCEPT ![p] = "done"]

Goto(p, label) ==
    /\ pc' = [pc EXCEPT ![p] = label]
    /\ UNCHANGED w

(***************************************************************************)
(* GET /repository/{owner}/{repo}/collaborators/{username}/permission      *)
(***************************************************************************)
GetServeHTTP(p) ==
    LET r == inbound[p] IN
    /\ pc[p] = "start" /\ r.route = "collaborator" /\ r.method = "GET"
    /\ \E out \in CheckOutcomes :
         LET c == checkCollaboratorStatus(out) IN
         /\ Do(p, makeGitHubRequest("GET", CollaboratorURL(r.owner, r.repo, r.username),
                                    r.auth, NoBody), out)
         /\ IF c.err
            THEN Finish(p, writeErrorResponse(w[p], 500,
                              [msg |-> "Error checking collaborator status"]))
            ELSE IF c.status # StatusCollaborator
            THEN Finish(p, writeErrorResponse(w[p], 404,
                              [msg |-> "User is not a collaborator of the repository or the user does not exist"]))
            ELSE Goto(p, "permission")
    /\ UNCHANGED <<active, inbound, loc, flat>>

\* variant: a body without `permission` is returned as far as it was normalized
processPermissionResponse_Partial(body, owner, repo, username) ==
    LET flattened == FlattenGitHubUserPermissionBytes(body) IN
    IF ~flattened.ok THEN Fail
    ELSE LET corrected == CorrectGitHubUserPermissionField(flattened.body) IN
    IF ~corrected.ok THEN Fail
    ELSE LET permission == ReadFieldFromBody(corrected.body, "permission") IN
    IF ~permission.ok THEN Ok(corrected.body)
    ELSE AddFieldToResponse(corrected.body, "message",
            JText([msg |-> "User is a collaborator of the repository with permission",
                   owner |-> owner, repo |-> repo, permission |-> SprintfS(permission.v)]))

processPermissionResponse(body, owner, repo, username) ==
    LET flattened == FlattenGitHubUserPermissionBytes(body) IN
    IF ~flattened.ok THEN Fail
    ELSE LET corrected == CorrectGitHubUserPermissionField(flattened.body) IN
    IF ~corrected.ok THEN Fail
    ELSE LET permission == ReadFieldFromBody(corrected.body, "permission") IN
    IF ~permission.ok THEN Fail
    ELSE AddFieldToResponse(corrected.body, "message",
            JText([msg |-> "User is a collaborator of the repository with permission",
                   owner |-> owner, repo |-> repo, permission |-> SprintfS(permission.v)]))

getUserPermissionAndRespond(p) ==
    LET r == inbound[p] IN
    /\ pc[p] = "permission"
    /\ \E out \in PermOutcomes :
         /\ Do(p, makeGitHubRequest("GET", PermissionURL(r.owner, r.repo, r.username),
                                    r.auth, NoBody), out)
         /\ IF IsErr(out)
            THEN Finish(p, writeErrorResponse(w[p], 500,
                              [msg |-> "Error getting user permission"]))
            ELSE LET processed == processPermissionResponse(out.body, r.owner, r.repo, r.username) IN
                 IF processed.panic THEN Goto(p, "panic")
                 ELSE IF ~processed.ok THEN Finish(p, writeJSONResponse(w[p], 200, out.body))
                 ELSE Finish(p, writeJSONResponse(w[p], 200, processed.body))
    /\ UNCHANGED <<active, inbound, loc, flat>>

(***************************************************************************)
(* POST /repository/{owner}/{repo}/collaborators/{username}                *)
(***************************************************************************)
\* variant: an upstream 201 is forwarded like any other status
addCollaboratorRespond_NoRemap(wr, out, r, permission) ==
    CASE out.code = 204 -> WriteHeader(wr, 204)
      [] OTHER -> ForwardUpstream(wr, out)

\* the switch of addCollaborator on the upstream status
addCollaboratorRespond(wr, out, r, permission) ==
    CASE out.code = 201 ->
           writeJSONResponse(wr, 202,
               AddFieldToResponse(Doc(TRUE, JObj(EmptyMap)), "message",
                   JText([msg |-> "Invitation sent to user for repository with permission",
                          username |-> r.username, owner |-> r.owner, repo |-> r.repo,
                          permission |-> permission])).body)
      [] out.code = 204 -> WriteHeader(wr, 204)
      [] OTHER -> ForwardUpstream(wr, out)

PostServeHTTP(p) ==
    LET r == inbound[p]
        permission == ReadFieldFromBody(r.body, "permission")
    IN
    /\ pc[p] = "start" /\ r.method = "POST"
    /\ \/ /\ ~permission.ok
          /\ Finish(p, writeErrorResponse(w[p], 400,
                           [msg |-> "Error reading permission from request body"]))
          /\ NoCall
       \/ /\ permission.ok
          /\ \E out \in MutOutcomes :
               /\ Do(p, makeGitHubRequest("PUT", CollaboratorURL(r.owner, r.repo, r.username),
                                          r.auth, r.body), out)
               /\ IF IsErr(out)
                  THEN Finish(p, writeErrorResponse(w[p], 500, [msg |-> "Error adding collaborator"]))
                  ELSE Finish(p, addCollaboratorRespond(w[p], out, r, SprintfS(permission.v)))
    /\ UNCHANGED <<active, inbound, loc, flat>>

\* the body every success / not-found message is sent in: {"message": ...}
MessageBody(message) ==
    AddFieldToResponse(Doc(TRUE, JObj(EmptyMap)), "message", JText(message)).body

(***************************************************************************)
(* Invitation locator: one iteration of the loop of                        *)
(* findUserInvitationHelper, given the answer to the page request.         *)
(* next = TRUE when the loop goes on with page + 1.                        *)
(***************************************************************************)
\* variant: a full page without a match is taken for the last page
findUserInvitationPage_StopsOnFullPage(out, username, perPage) ==
    IF IsErr(out)
    THEN [next |-> FALSE, found |-> FALSE, err |-> TRUE, inv |-> NoInvitation]
    ELSE IF out.code # 200
    THEN [next |-> FALSE, found |-> FALSE, err |-> FALSE, inv |-> NoInvitation]
    ELSE LET hit == getUserInvitationFromPage(out.body, username)
             invitations == parseInvitations(out.body)
         IN IF hit.found
            THEN [next |-> FALSE, found |-> TRUE, err |-> FALSE, inv |-> hit.inv]
            ELSE IF ~invitations.ok
            THEN [next |-> FALSE, found |-> FALSE, err |-> TRUE, inv |-> NoInvitation]
            ELSE IF Len(invitations.list) <= perPage
            THEN [next |-> FALSE, found |-> FALSE, err |-> FALSE, inv |-> NoInvitation]
            ELSE [next |-> TRUE, found |-> FALSE, err |-> FALSE, inv |-> NoInvitation]

\* variant: a non-200 answer to a page fetch is an error
findUserInvitationPage_Non200IsError(out, username, perPage) ==
    IF IsErr(out)
    THEN [next |-> FALSE, found |-> FALSE, err |-> TRUE, inv |-> NoInvitation]
    ELSE IF out.code # 200
    THEN [next |-> FALSE, found |-> FALSE, err |-> TRUE, inv |-> NoInvitation]
    ELSE LET hit == getUserInvitationFromPage(out.body, username)
             invitations == parseInvitations(out.body)
         IN IF hit.found
            THEN [next |-> FALSE, found |-> TRUE, err |-> FALSE, inv |-> hit.inv]
            ELSE IF ~invitations.ok
            THEN [next |-> FALSE, found |-> FALSE, err |-> TRUE, inv |-> NoInvitation]
            ELSE IF Len(invitations.list) < perPage
            THEN [next |-> FALSE, found |-> FALSE, err |-> FALSE, inv |-> NoInvitation]
            ELSE [next |-> TRUE, found |-> FALSE, err |-> FALSE, inv |-> NoInvitation]

\* variant: only an empty page is taken for the last page
findUserInvitationPage_UntilEmptyPage(out, username, perPage) ==
    IF IsErr(out)
    THEN [next |-> FALSE, found |-> FALSE, err |-> TRUE, inv |-> NoInvitation]
    ELSE IF out.code # 200
    THEN [next |-> FALSE, found |-> FALSE, err |-> FALSE, inv |-> NoInvitation]
    ELSE LET hit == getUserInvitationFromPage(out.body, username)
             invitations == parseInvitations(out.body)
         IN IF hit.found
            THEN [next |-> FALSE, found |-> TRUE, err |-> FALSE, inv |-> hit.inv]
            ELSE IF ~invitations.ok
            THEN [next |-> FALSE, found |-> FALSE, err |-> TRUE, inv |-> NoInvitation]
            ELSE IF Len(invitations.list) = 0
            THEN [next |-> FALSE, found |-> FALSE, err |-> FALSE, inv |-> NoInvitation]
            ELSE [next |-> TRUE, found |-> FALSE, err |-> FALSE, inv |-> NoInvitation]

findUserInvitationPage(out, username, perPage) ==
    IF IsErr(out)
    THEN [next |-> FALSE, found |-> FALSE, err |-> TRUE, inv |-> NoInvitation]
    ELSE IF out.code # 200
    THEN [next |-> FALSE, found |-> FALSE, err |-> FALSE, inv |-> NoInvitation]
    ELSE LET hit == getUserInvitationFromPage(out.body, username)
             invitations == parseInvitations(out.body)
         IN IF hit.found
            THEN [next |-> FALSE, found |-> TRUE, err |-> FALSE, inv |-> hit.inv]
            ELSE IF ~invitations.ok
            THEN [next |-> FALSE, found |-> FALSE, err |-> TRUE, inv |-> NoInvitation]
            ELSE IF Len(invitations.list) < perPage
            THEN [next |-> FALSE, found |-> FALSE, err |-> FALSE, inv |-> NoInvitation]
            ELSE [next |-> TRUE, found |-> FALSE, err |-> FALSE, inv |-> NoInvitation]

\* variant: "not found" is answered with the plain-text fallback
NoInvitationRespond_PlainText(wr, r, res) ==
    IF res.err
    THEN writeErrorResponse(wr, 500,
            [msg |-> IF r.method = "PATCH" THEN "Error updating permission: error checking invitations"
                     ELSE "Error removing user: error checking invitations"])
    ELSE writeErrorResponse(wr, 404,
            [msg |-> "User not found as collaborator or invitee", username |-> r.username])

\* what updateInvitationPermission / cancelInvitation and their ServeHTTP do
\* with a locator result that is an error or not-found
NoInvitationRespond(wr, r, res) ==
    IF res.err
    THEN writeErrorResponse(wr, 500,
            [msg |-> IF r.method = "PATCH" THEN "Error updating permission: error checking invitations"
                     ELSE "Error removing user: error checking invitations"])
    ELSE writeJSONResponse(wr, 404,
            MessageBody([msg |-> "User is not a collaborator and has no pending invitation",
                         username |-> r.username]))

findUserInvitationHelper(p) ==
    LET r == inbound[p] IN
    /\ pc[p] = "page"
    /\ \E out \in PageOutcomes :
         LET res == findUserInvitationPage(out, r.username, PerPage) IN
         /\ res.next => loc[p].page < MaxPages
         /\ Do(p, InvitationsRequest(r.owner, r.repo, PerPage, loc[p].page, r.auth), out)
         /\ IF res.next
            THEN /\ loc' = [loc EXCEPT ![p].page = @ + 1]
                 /\ Goto(p, "page")
            ELSE IF res.found
            THEN /\ loc' = [loc EXCEPT ![p].inv = res.inv]
                 /\ Goto(p, IF r.method = "PATCH" THEN "updateInvitation" ELSE "cancelInvitation")
            ELSE /\ UNCHANGED loc
                 /\ Finish(p, NoInvitationRespond(w[p], r, res))
    /\ UNCHANGED <<active, inbound, flat>>

(***************************************************************************)
(* PATCH /repository/{owner}/{repo}/collaborators/{username}               *)
(***************************************************************************)
PatchServeHTTP(p) ==
    LET r == inbound[p]
        permission == ReadFieldFromBody(r.body, "permission")
    IN
    /\ pc[p] = "start" /\ r.method = "PATCH"
    /\ \/ /\ ~permission.ok
          /\ Finish(p, writeErrorResponse(w[p], 500,
                           [msg |-> "Error reading permission from request body"]))
          /\ NoCall /\ UNCHANGED loc
       \/ /\ permission.ok
          /\ \E out \in CheckOutcomes :
               LET c == checkCollaboratorStatus(out) IN
               /\ Do(p, makeGitHubRequest("GET", CollaboratorURL(r.owner, r.repo, r.username),
                                          r.auth, NoBody), out)
               /\ IF c.err
                  THEN /\ Finish(p, writeErrorResponse(w[p], 500,
                                        [msg |-> "Error checking collaborator status"]))
                       /\ UNCHANGED loc
                  ELSE /\ loc' = [loc EXCEPT ![p] = [page |-> 1, inv |-> NoInvitation,
                                                     permission |-> SprintfS(permission.v)]]
                       /\ Goto(p, IF c.status = StatusCollaborator
                                  THEN "updateCollaboratorPermission" ELSE "page")
    /\ UNCHANGED <<active, inbound, flat>>

updateCollaboratorPermission(p) ==
    LET r == inbound[p] IN
    /\ pc[p] = "updateCollaboratorPermission"
    /\ \E out \in MutOutcomes :
         /\ Do(p, makeGitHubRequest("PUT", CollaboratorURL(r.owner, r.repo, r.username),
                                    r.auth, r.body), out)
         /\ IF IsErr(out)
            THEN Finish(p, writeErrorResponse(w[p], 500, [msg |-> "Error updating permission"]))
            ELSE IF out.code = 204
            THEN Finish(p, writeJSONResponse(w[p], 200,
                    MessageBody([msg |-> "Permission updated successfully for collaborator with permission",
                                 username |-> r.username, permission |-> loc[p].permission])))
            ELSE Finish(p, ForwardUpstream(w[p], out))
    /\ UNCHANGED <<active, inbound, loc, flat>>

updateInvitation(p) ==
    LET r == inbound[p]
        correctedBody == CorrectGitHubUserPermissionsFieldReqBody(r.body)
    IN
    /\ pc[p] = "updateInvitation"
    /\ \/ /\ ~correctedBody.ok
          /\ Finish(p, writeErrorResponse(w[p], 500,
                           [msg |-> "Error updating permission: failed to correct permissions field"]))
          /\ NoCall
       \/ /\ correctedBody.ok
          /\ \E out \in MutOutcomes :
               /\ Do(p, makeGitHubRequest("PATCH", InvitationURL(r.owner, r.repo, loc[p].inv.id),
                                          r.auth, correctedBody.body), out)
               /\ IF IsErr(out)
                  THEN Finish(p, writeErrorResponse(w[p], 500, [msg |-> "Error updating permission"]))
                  ELSE IF out.code = 200
                  THEN Finish(p, writeJSONResponse(w[p], 202,
                          MessageBody([msg |-> "Invitation permission updated successfully for user with permission",
                                       username |-> r.username, permission |-> loc[p].permission])))
                  ELSE Finish(p, ForwardUpstream(w[p], out))
    /\ UNCHANGED <<active, inbound, loc, flat>>

(***************************************************************************)
(* DELETE /repository/{owner}/{repo}/collaborators/{username}              *)
(***************************************************************************)
DeleteServeHTTP(p) ==
    LET r == inbound[p] IN
    /\ pc[p] = "start" /\ r.method = "DELETE"
    /\ \E out \in CheckOutcomes :
         LET c == checkCollaboratorStatus(out) IN
         /\ Do(p, makeGitHubRequest("GET", CollaboratorURL(r.owner, r.repo, r.username),
                                    r.auth, NoBody), out)
         /\ IF c.err
            THEN /\ Finish(p, writeErrorResponse(w[p], 500,
                                  [msg |-> "Error checking collaborator status"]))
                 /\ UNCHANGED loc
            ELSE /\ loc' = [loc EXCEPT ![p].page = 1]
                 /\ Goto(p, IF c.status = StatusCollaborator THEN "removeCollaborator" ELSE "page")
    /\ UNCHANGED <<active, inbound, flat>>

removeCollaborator(p) ==
    LET r == inbound[p] IN
    /\ pc[p] = "removeCollaborator"
    /\ \E out \in MutOutcomes :
         /\ Do(p, makeGitHubRequest("DELETE", CollaboratorURL(r.owner, r.repo, r.username),
                                    r.auth, NoBody), out)
         /\ IF IsErr(out)
            THEN Finish(p, writeErrorResponse(w[p], 500, [msg |-> "Error removing user"]))
            ELSE IF out.code = 204
            THEN Finish(p, writeJSONResponse(w[p], 200,
                    MessageBody([msg |-> "Collaborator removed successfully from repository",
                                 username |-> r.username, owner |-> r.owner, repo |-> r.repo])))
            ELSE Finish(p, ForwardUpstream(w[p], out))
    /\ UNCHANGED <<active, inbound, loc, flat>>

cancelInvitation(p) ==
    LET r == inbound[p] IN
    /\ pc[p] = "cancelInvitation"
    /\ \E out \in MutOutcomes :
         /\ Do(p, makeGitHubRequest("DELETE", InvitationURL(r.owner, r.repo, loc[p].inv.id),
                                    r.auth, NoBody), out)
         /\ IF IsErr(out)
            THEN Finish(p, writeErrorResponse(w[p], 500, [msg |-> "Error removing user"]))
            ELSE IF out.code = 204
            THEN Finish(p, writeJSONResponse(w[p], 202,
                    MessageBody([msg |-> "Invitation cancelled successfully for user",
                                 username |-> r.username])))
            ELSE Finish(p, ForwardUpstream(w[p], out))
    /\ UNCHANGED <<active, inbound, loc, flat>>

(***************************************************************************)
(* GET /teamrepository/orgs/{org}/teams/{team_slug}/repos/{owner}/{repo}   *)
(***************************************************************************)
TeamRepoURL(g, t, o, r) ==
    [res |-> "orgs/{org}/teams/{team_slug}/repos/{owner}/{repo}",
     org |-> g, team |-> t, owner |-> o, repo |-> r]

\* variant: the Accept header is sent only on authenticated requests
TeamRepoRequest_AcceptWithAuthOnly(g, t, o, r, authHeader) ==
    [method |-> "GET", url |-> TeamRepoURL(g, t, o, r), ctx |-> "background",
     header |-> IF authHeader # ""
                THEN ("Accept" :> "application/vnd.github.v3.repository+json")
                     @@ AuthorizationHeader(authHeader)
                ELSE NoHeaders,
     body |-> NoBody]

\* the request handler.ServeHTTP hands to h.Client.Do
TeamRepoRequest(g, t, o, r, authHeader) ==
    [method |-> "GET", url |-> TeamRepoURL(g, t, o, r), ctx |-> "background",
     header |-> ("Accept" :> "application/vnd.github.v3.repository+json")
                @@ AuthorizationHeader(authHeader),
     body |-> NoBody]

\* w.Header().Add(key, value) for the headers of the upstream response
CopyHeaders(wr, out) == IF out.ct # "" THEN [wr EXCEPT !.hdrCT = out.ct] ELSE wr

\* http.Error(w, error, code)
httpError(wr, error, c) ==
    Write(WriteHeader([wr EXCEPT !.hdrCT = "text/plain; charset=utf-8"], c), [line |-> error])

\* json.Unmarshal(body, &repoPermissions): of the Repository struct the
\* handler reads RoleName (json role_name) only.  A role_name that is not a
\* string (or null) is a type error that leaves RoleName empty.
UnmarshalRepository(b) ==
    IF IsRaw(b) THEN [ok |-> FALSE, RoleName |-> ""]
    ELSE IF IsNull(b.val) THEN [ok |-> TRUE, RoleName |-> ""]
    ELSE IF ~IsObj(b.val) THEN [ok |-> FALSE, RoleName |-> ""]
    ELSE IF "role_name" \notin DOMAIN b.val.o THEN [ok |-> TRUE, RoleName |-> ""]
    ELSE IF IsStr(b.val.o["role_name"]) THEN [ok |-> TRUE, RoleName |-> b.val.o["role_name"].s]
    ELSE IF IsNull(b.val.o["role_name"]) THEN [ok |-> TRUE, RoleName |-> ""]
    ELSE [ok |-> FALSE, RoleName |-> ""]

\* unicode simple case folding of a role name, on the names of the model
FoldName(x) ==
    CASE x = "READ" -> "read" [] x = "Write" -> "write" [] x = "WRITE" -> "write"
      [] x = "Read" -> "read" [] OTHER -> x
EqualFoldName(x, y) == FoldName(x) = FoldName(y)

\* variant: the role name is copied to `permission` as it is
TeamRepoPermission_Untranslated(roleName) == roleName

\* the if / else if / else on repoPermissions.RoleName
TeamRepoPermission(roleName) ==
    IF EqualFoldName(roleName, "read") THEN "pull"
    ELSE IF EqualFoldName(roleName, "write") THEN "push"
    ELSE roleName

\* the rewriting of the decoded body
TeamRepoRewrite(m, owner, roleName) ==
    Put(Put(Del(Del(m, "permissions"), "owner"), "owner", JStr(owner)),
        "permission", JStr(TeamRepoPermission(roleName)))

TeamRepoServeHTTP(p) ==
    LET r == inbound[p] IN
    /\ pc[p] = "start" /\ r.route = "teamrepository"
    /\ \E out \in TeamRepoOutcomes :
         /\ Do(p, TeamRepoRequest(r.org, r.team, r.owner, r.repo, r.auth), out)
         /\ IF IsErr(out)
            THEN \* the error is written, then resp.Body dereferences the nil resp
                 /\ w' = [w EXCEPT ![p] = Write(w[p], Text([msg |-> "Error: ", err |-> "Do"]))]
                 /\ pc' = [pc EXCEPT ![p] = "panic"]
            ELSE LET w1 == CopyHeaders(w[p], out) IN
                 IF out.code # 200
                 THEN Finish(p, httpError(w1, out.body, out.code))
                 ELSE LET repoPermissions == UnmarshalRepository(out.body)
                          expected == UnmarshalMap(out.body)
                          w2 == IF ~repoPermissions.ok
                                THEN Write(w1, Text([msg |-> "Error: ", err |-> "Unmarshal Repository"]))
                                ELSE w1
                          w3 == IF ~expected.ok
                                THEN Write(w2, Text([msg |-> "Error: ", err |-> "Unmarshal map"]))
                                ELSE w2
                      IN IF expected.nil
                         THEN \* expected["owner"] = owner on the nil map
                              /\ w' = [w EXCEPT ![p] = w3]
                              /\ pc' = [pc EXCEPT ![p] = "panic"]
                         ELSE Finish(p, Write(w3, MarshalMap(
                                 TeamRepoRewrite(expected.m, r.owner, repoPermissions.RoleName))))
    /\ UNCHANGED <<active, inbound, loc, flat>>

\* a panic of the handler: the server recovers it and closes the connection
\* without sending the response
Recover(p) ==
    /\ pc[p] = "panic"
    /\ inbound' = [inbound EXCEPT ![p] = NoRequest]
    /\ pc' = [pc EXCEPT ![p] = "idle"]
    /\ loc' = [loc EXCEPT ![p] = NoLocals]
    /\ w' = [w EXCEPT ![p] = NewWriter]
    /\ calls' = [calls EXCEPT ![p] = <<>>]
    /\ UNCHANGED <<active, upstream, flat>>

\* the handler has returned and the server has sent the response
Return(p) ==
    /\ pc[p] = "done"
    /\ inbound' = [inbound EXCEPT ![p] = NoRequest]
    /\ pc' = [pc EXCEPT ![p] = "idle"]
    /\ loc' = [loc EXCEPT ![p] = NoLocals]
    /\ w' = [w EXCEPT ![p] = NewWriter]
    /\ calls' = [calls EXCEPT ![p] = <<>>]
    /\ UNCHANGED <<active, upstream, flat>>

Next ==
    \E p \in Procs :
       \/ Receive(p)
       \/ Return(p)
       \/ Recover(p)
       \/ TeamRepoServeHTTP(p)
       \/ GetServeHTTP(p)
       \/ getUserPermissionAndRespond(p)
       \/ PostServeHTTP(p)
       \/ PatchServeHTTP(p)
       \/ updateCollaboratorPermission(p)
       \/ findUserInvitationHelper(p)
       \/ updateInvitation(p)
       \/ DeleteServeHTTP(p)
       \/ removeCollaborator(p)
       \/ cancelInvitation(p)

Spec == Init /\ [][Next]_vars

(***************************************************************************)
(* Two requests in flight.  The server runs every handler in a goroutine   *)
(* of its own; the handlers share the http.Client and the logger only.     *)
(* Both slots serve requests, against an upstream that gives the answers   *)
(* of ConcurrentOutcomes to requests with the bodies of ConcurrentBodies.  *)
(***************************************************************************)
InitConcurrent ==
    /\ active = Procs
    /\ inbound = [p \in Procs |-> NoRequest]
    /\ pc = [p \in Procs |-> "idle"]
    /\ loc = [p \in Procs |-> NoLocals]
    /\ w = [p \in Procs |-> NewWriter]
    /\ calls = [p \in Procs |-> <<>>]
    /\ upstream = AnyUpstream
    /\ flat = NoFlatten

ConcurrentBodies ==
    { NoBody, PermBody(TRUE, JStr("push")), Doc(FALSE, JObj("other_field" :> JStr("value"))) }
ConcurrentOutcomes ==
    { TransportErr,
      Answer(204, NoBody), Answer(404, NoBody), Answer(200, NoBody), Answer(201, NoBody),
      Answer(200, PermissionDoc(JStr("write"))),
      Answer(200, Doc(TRUE, JArr(<<Invitation(3, <<"a", "l">>)>> \o Filler(PerPage - 1)))),
      Answer(200, Doc(TRUE, JArr(<<Invitation(1, <<"b", "o">>)>>))),
      AnswerCT(200, TeamRepoDoc(JStr("write")), "application/json; charset=utf-8"),
      AnswerCT(404, ErrDoc, "application/json; charset=utf-8") }
Narrow ==
    \A p \in Procs :
       /\ inbound[p].body \in ConcurrentBodies
       /\ inbound[p].username \in { <<>>, <<"B", "o">> }
       /\ \A i \in 1..Len(calls[p]) : calls[p][i].out \in ConcurrentOutcomes

NextConcurrent == Next /\ Narrow'

SpecConcurrent == InitConcurrent /\ [][NextConcurrent]_vars

(***************************************************************************)
(* The running server: the routes main registers on its ServeMux, and the  *)
(* requests of the exposed HTTP surface.  A request that no pattern        *)
(* matches is answered by the mux itself (http.NotFound).                  *)
(***************************************************************************)
PermissionPath == "/repository/{owner}/{repo}/collaborators/{username}/permission"
CollaboratorPath == "/repository/{owner}/{repo}/collaborators/{username}"
TeamRepositoryPath == "/teamrepository/orgs/{org}/teams/{team_slug}/repos/{owner}/{repo}"

\* mux.Handle / mux.HandleFunc of main; method "" is a pattern without method
ServeMux ==
    { [method |-> "GET", path |-> PermissionPath, handler |-> "repository"],
      [method |-> "GET", path |-> TeamRepositoryPath, handler |-> "teamrepository"],
      [method |-> "", path |-> "/swagger/", handler |-> "swagger"],
      [method |-> "GET", path |-> "/healthz", handler |-> "healthz"],
      [method |-> "GET", path |-> "/readyz", handler |-> "readyz"] }

\* the HTTP surface the service documents
ExposedEndpoints ==
    { [method |-> "GET", path |-> PermissionPath],
      [method |-> "POST", path |-> CollaboratorPath],
      [method |-> "PATCH", path |-> CollaboratorPath],
      [method |-> "DELETE", path |-> CollaboratorPath],
      [method |-> "GET", path |-> TeamRepositoryPath] }

\* ServeMux.Handler: the handler of the matching pattern, "" when there is none
MuxHandler(e) ==
    LET matching == { h \in ServeMux : h.path = e.path /\ h.method \in {"", e.method} } IN
    IF matching = {} THEN "" ELSE (CHOOSE h \in matching : TRUE).handler
\* the status of the mux's own answer when no pattern matches
MuxStatus(e) ==
    IF \E h \in ServeMux : h.path = e.path THEN 405 ELSE 404

ServerReceive(p) ==
    /\ p \in active
    /\ pc[p] = "idle"
    /\ \E e \in ExposedEndpoints, o \in Owners, r \in Repos, a \in AuthHeaders :
         \E g \in (IF e.path = TeamRepositoryPath THEN Orgs ELSE {""}),
            t \in (IF e.path = TeamRepositoryPath THEN TeamSlugs ELSE {""}),
            u \in (IF e.path = TeamRepositoryPath THEN { <<>> } ELSE Usernames),
            b \in InboundBodies(e.method) :
            /\ inbound' = [inbound EXCEPT ![p] =
                   [route |-> MuxHandler(e), method |-> e.method, org |-> g, team |-> t,
                    owner |-> o, repo |-> r, username |-> u, auth |-> a, body |-> b,
                    cancelled |-> FALSE]]
            /\ IF MuxHandler(e) # ""
               THEN /\ pc' = [pc EXCEPT ![p] = "start"]
                    /\ w' = [w EXCEPT ![p] = NewWriter]
               ELSE /\ pc' = [pc EXCEPT ![p] = "done"]
                    /\ w' = [w EXCEPT ![p] =
                            httpError(NewWriter, [raw |-> "404 page not found"], MuxStatus(e))]
    /\ loc' = [loc EXCEPT ![p] = NoLocals]
    /\ calls' = [calls EXCEPT ![p] = <<>>]
    /\ UNCHANGED <<active, upstream, flat>>

\* the request repo.getHandler builds with http.NewRequest
RepoRequest(url, auth_header) ==
    [method |-> "GET", url |-> url, ctx |-> "background",
     header |-> AuthorizationHeader(auth_header), body |-> NoBody]

\* repo.getHandler.ServeHTTP up to the answer of the collaborator check
RepoGetServeHTTP(p) ==
    LET r == inbound[p] IN
    /\ pc[p] = "start" /\ r.route = "repository"
    /\ \E out \in CheckOutcomes :
         /\ Do(p, RepoRequest(CollaboratorURL(r.owner, r.repo, r.username), r.auth), out)
         /\ IF IsErr(out)
            THEN Finish(p, Write(w[p], Text([msg |-> "Error: ", err |-> "Do"])))
            ELSE IF out.code = 204
            THEN Goto(p, "repoPermission")
            ELSE Finish(p, Write(WriteHeader(w[p], out.code),
                                 Text([msg |-> "Error: ", status |-> out.code])))
    /\ UNCHANGED <<active, inbound, loc, flat>>

\* repo.getHandler.ServeHTTP from the permission request on
RepoGetPermission(p) ==
    LET r == inbound[p] IN
    /\ pc[p] = "repoPermission"
    /\ \E out \in PermOutcomes :
         /\ Do(p, RepoRequest(PermissionURL(r.owner, r.repo, r.username), r.auth), out)
         /\ IF IsErr(out)
            THEN Finish(p, Write(w[p], Text([msg |-> "Error: ", err |-> "Do"])))
            ELSE LET flattenedBody == FlattenGitHubUserPermissionBytes(out.body)
                     correctedBody == CorrectGitHubUserPermissionField(flattenedBody.body)
                     permissionGranted == ReadFieldFromBody(correctedBody.body, "permission")
                     finalBody == AddFieldToResponse(correctedBody.body, "message",
                        JText([msg |-> "User is a collaborator of the repository with permission",
                               owner |-> r.owner, repo |-> r.repo,
                               permission |-> SprintfS(permissionGranted.v)]))
                 IN IF ~flattenedBody.ok
                    THEN Finish(p, Write(SetContentTypeJSON(w[p]), out.body))
                    ELSE IF ~correctedBody.ok
                    THEN Finish(p, Write(SetContentTypeJSON(w[p]), flattenedBody.body))
                    ELSE IF ~permissionGranted.ok
                    THEN Finish(p, Write(WriteHeader(w[p], 500),
                                         Text([msg |-> "Error: ", err |-> "ReadFieldFromBody"])))
                    ELSE IF finalBody.panic
                    THEN Goto(p, "panic")
                    ELSE IF ~finalBody.ok
                    THEN Finish(p, Write(WriteHeader(w[p], 500),
                                         Text([msg |-> "Error: ", err |-> "AddFieldToResponse"])))
                    ELSE Finish(p, Write(SetContentTypeJSON(w[p]), finalBody.body))
    /\ UNCHANGED <<active, inbound, loc, flat>>

NextServer ==
    \E p \in Procs :
       \/ ServerReceive(p)
       \/ Return(p)
       \/ RepoGetServeHTTP(p)
       \/ RepoGetPermission(p)
       \/ TeamRepoServeHTTP(p)
       \/ Recover(p)

SpecServer == Init /\ [][NextServer]_vars

(***************************************************************************)
(* Cancellation.  The server cancels the context of an inbound request     *)
(* when the client goes away while the handler runs.                       *)
(***************************************************************************)
Cancel(p) ==
    /\ pc[p] \notin {"idle", "done", "panic"}
    /\ ~inbound[p].cancelled
    /\ inbound' = [inbound EXCEPT ![p].cancelled = TRUE]
    /\ UNCHANGED <<active, pc, loc, w, calls, upstream, flat>>

NextCancel == (Next \/ \E p \in Procs : Cancel(p)) /\ Narrow'

SpecCancel == Init /\ [][NextCancel]_vars

(***************************************************************************)
(* The handler goroutine runs the loop of findUserInvitationHelper to its  *)
(* end: an iteration that can be taken is taken.  The upstreams are those  *)
(* that answer every page request (with a response or a transport error)   *)
(* and stop the search by page MaxPages.                                    *)
(***************************************************************************)
SpecLocator == Init /\ [][Next]_vars /\ \A p \in Procs : WF_vars(findUserInvitationHelper(p))

(***************************************************************************)
(* A call of ResponseFlattener.FlattenBytes, on its own: the input bytes   *)
(* and the mapping list of the flattener are drawn from FlattenInputs and  *)
(* MappingLists; the call leaves its result.                               *)
(***************************************************************************)
FlattenValues ==
    { JObj(("a" :> JNum(1)) @@ ("id" :> JNum(99))
           @@ ("user" :> JObj(("id" :> JNum(7)) @@ ("login" :> JStr("bo"))
                              @@ ("deep" :> JObj("x" :> JNull))))),
      JObj(("a" :> JStr("s")) @@ ("user" :> JObj("id" :> JNum(7)))),
      JObj(("id" :> JNum(99)) @@ ("user" :> JStr("bo"))),
      JObj("user" :> JNull),
      JObj(EmptyMap),
      JNull,
      JArr(<<>>) }
FlattenInputs ==
    { Doc(FALSE, v) : v \in FlattenValues } \cup { [raw |-> "<html>"], NoBody }
SourcePaths ==
    { <<"a">>, <<"user">>, <<"user", "id">>, <<"user", "login">>, <<"user", "deep", "x">>,
      <<"user", "deep", "missing">>, <<"a", "x">>, <<"missing">> }
TargetKeys == {"id", "a", "t"}
FieldMapping(src, tgt) == [src |-> src, tgt |-> tgt]
FieldMappings == { FieldMapping(src, tgt) : src \in SourcePaths, tgt \in TargetKeys }
MaxMappings == 2
MappingLists == UNION { [1..n -> FieldMappings] : n \in 0..MaxMappings }

InitFlatten ==
    /\ active = {}
    /\ inbound = [p \in Procs |-> NoRequest]
    /\ pc = [p \in Procs |-> "idle"]
    /\ loc = [p \in Procs |-> NoLocals]
    /\ w = [p \in Procs |-> NewWriter]
    /\ calls = [p \in Procs |-> <<>>]
    /\ upstream = AnyUpstream
    /\ flat \in [body : FlattenInputs, mappings : MappingLists, called : {FALSE}, result : {Fail}]

\* rf.FlattenBytes(body) with rf.Mappings = flat.mappings
FlattenCall ==
    /\ ~flat.called
    /\ flat' = [flat EXCEPT !.called = TRUE, !.result = FlattenBytes(flat.body, flat.mappings)]
    /\ UNCHANGED <<active, inbound, pc, loc, w, calls, upstream>>

NextFlatten == FlattenCall

SpecFlatten == InitFlatten /\ [][NextFlatten]_vars

(***************************************************************************)
(* Two requests for the same owner / repo / username in flight against one *)
(* repository of the upstream.  Both handlers have been started; each step *)
(* of a handler is one round trip, answered by the upstream from its state *)
(* at that moment.  upstream.init is the state before the two requests,    *)
(* upstream.log the slots in the order of their round trips.               *)
(***************************************************************************)
GitHubStates == { GitHubNone, GitHubCollaborator(JStr("pull")), GitHubInvited(1, JStr("read")) }
SerialRequests ==
    { [route |-> "collaborator", method |-> "PATCH", org |-> "", team |-> "",
       owner |-> "acme", repo |-> "app", username |-> <<"B", "o">>, auth |-> "token A",
       body |-> b, cancelled |-> FALSE] : b \in {PermBody(TRUE, JStr("push")), PermBody(FALSE, JStr("pull"))} }
    \cup
    { [route |-> "collaborator", method |-> "DELETE", org |-> "", team |-> "",
       owner |-> "acme", repo |-> "app", username |-> <<"B", "o">>, auth |-> "token A",
       body |-> NoBody, cancelled |-> FALSE] }

InitSerial ==
    /\ active = Procs
    /\ inbound \in [Procs -> SerialRequests]
    /\ pc = [p \in Procs |-> "start"]
    /\ loc = [p \in Procs |-> NoLocals]
    /\ w = [p \in Procs |-> NewWriter]
    /\ calls = [p \in Procs |-> <<>>]
    /\ upstream \in { [init |-> s, now |-> s] : s \in GitHubStates }
    /\ flat = NoFlatten

NextSerial ==
    \E p \in Procs :
       \/ PatchServeHTTP(p)
       \/ updateCollaboratorPermission(p)
       \/ findUserInvitationHelper(p)
       \/ updateInvitation(p)
       \/ DeleteServeHTTP(p)
       \/ removeCollaborator(p)
       \/ cancelInvitation(p)

SpecSerial == InitSerial /\ [][NextSerial]_vars

TypeOK ==
    /\ active \subseteq Procs
    /\ \A p \in Procs :
         /\ pc[p] \in {"idle", "start", "permission", "page", "updateCollaboratorPermission",
                       "updateInvitation", "removeCollaborator", "cancelInvitation",
                       "repoPermission", "panic", "done"}
         /\ loc[p].page \in 0..MaxPages
         /\ w[p].code \in {0} \cup Statuses \cup {202, 400, 405}
         /\ inbound[p].route \in Routes \cup {"", "repository"}

(***************************************************************************)
(* Vocabulary of the properties.                                           *)
(***************************************************************************)
Answered(c) == ~IsErr(c.out)
IsCheckCall(p, c) ==
    /\ c.req.method = "GET"
    /\ c.req.url = CollaboratorURL(inbound[p].owner, inbound[p].repo, inbound[p].username)
IsPermissionCall(c) == c.req.url.res = "collaborators/{username}/permission"
IsPageCall(c) == c.req.url.res = "invitations"
IsMutatingCall(c) == c.req.method \in {"PUT", "PATCH", "DELETE"}
CheckReturned(p, code) ==
    /\ Len(calls[p]) >= 1
    /\ IsCheckCall(p, calls[p][1])
    /\ Answered(calls[p][1])
    /\ calls[p][1].out.code = code
LastCall(p) == calls[p][Len(calls[p])]
\* the response is one JSON object {"message": ...} sent as application/json
SentMessage(p) ==
    /\ w[p].sentCT = "application/json"
    /\ Len(w[p].body) = 1
    /\ "val" \in DOMAIN w[p].body[1]
    /\ IsObj(w[p].body[1].val)
    /\ DOMAIN w[p].body[1].val.o = {"message"}
MessageOf(p) == w[p].body[1].val.o["message"].t

(***************************************************************************)
(* C1.  GET collaborator permission: the permission sub-resource is        *)
(* requested only after the collaborator check of the same invocation      *)
(* returned 204; when the check returns 404 the handler answers 404 after  *)
(* exactly one upstream request, none of them to the permission resource.  *)
(***************************************************************************)
C1_PermissionOnlyAfterCheck ==
    \A p \in Procs :
       /\ \A i \in 1..Len(calls[p]) :
             IsPermissionCall(calls[p][i]) =>
                /\ inbound[p].route = "collaborator" /\ inbound[p].method = "GET"
                /\ i = 2
                /\ CheckReturned(p, 204)
                /\ calls[p][i].req.url
                     = PermissionURL(inbound[p].owner, inbound[p].repo, inbound[p].username)
       /\ (inbound[p].method = "GET" /\ CheckReturned(p, 404)) =>
             /\ pc[p] = "done"
             /\ w[p].code = 404
             /\ Len(calls[p]) = 1
             /\ ~IsPermissionCall(calls[p][1])

C1_Witness ==
    \E p \in Procs :
       /\ inbound[p].method = "GET"
       /\ CheckReturned(p, 204)
       /\ Len(calls[p]) = 2
       /\ IsPermissionCall(calls[p][2])
       /\ pc[p] = "done"

C3_PatchCollaboratorPath ==
    \A p \in Procs : (inbound[p].method = "PATCH" /\ CheckReturned(p, 204)) =>
       LET r == inbound[p] IN
       /\ Len(calls[p]) <= 2
       /\ pc[p] = "done" => Len(calls[p]) = 2
       /\ \A i \in 1..Len(calls[p]) : ~IsPageCall(calls[p][i])
       /\ Len(calls[p]) = 2 =>
            LET c == calls[p][2] IN
            /\ c.req.method = "PUT"
            /\ c.req.url = CollaboratorURL(r.owner, r.repo, r.username)
            /\ c.req.body = r.body
            /\ (Answered(c) /\ c.out.code = 204) =>
                  /\ w[p].code = 200
                  /\ SentMessage(p)

C3_Witness ==
    \E p \in Procs :
       /\ inbound[p].method = "PATCH"
       /\ CheckReturned(p, 204)
       /\ Len(calls[p]) = 2
       /\ Answered(calls[p][2])
       /\ calls[p][2].out.code = 204
       /\ w[p].code = 200

(***************************************************************************)
(* Pages of invitations, as the properties read them.                      *)
(***************************************************************************)
LowerCase(x) ==
    [i \in 1..Len(x) |-> CASE x[i] = "A" -> "a" [] x[i] = "B" -> "b" [] x[i] = "O" -> "o"
                           [] OTHER -> x[i]]
SameLogin(x, y) == LowerCase(x) = LowerCase(y)
\* the answer is a 200 whose body is a JSON list of invitations
Parseable(c) ==
    /\ Answered(c) /\ c.out.code = 200
    /\ ~IsRaw(c.out.body)
    /\ (IsArr(c.out.body.val) \/ IsNull(c.out.body.val))
Records(c) == IF IsArr(c.out.body.val) THEN c.out.body.val.a ELSE <<>>
MatchesOn(c, u) == {i \in 1..Len(Records(c)) : SameLogin(Records(c)[i].login, u)}
HasMatch(c, u) == Parseable(c) /\ MatchesOn(c, u) # {}
FirstMatch(c, u) == Records(c)[CHOOSE i \in MatchesOn(c, u) : \A j \in MatchesOn(c, u) : i <= j]
ShortPage(c) == Parseable(c) /\ Len(Records(c)) < 30
StopPage(c, u) == Answered(c) /\ (c.out.code # 200 \/ HasMatch(c, u) \/ ShortPage(c))
FailedPage(c) == IsErr(c.out) \/ (c.out.code = 200 /\ ~Parseable(c))
PageCalls(p) == SelectSeq(calls[p], IsPageCall)
\* the locator has returned "not found" without error on the last call
ReportsNoInvitation(p) ==
    /\ Len(calls[p]) >= 2
    /\ IsPageCall(LastCall(p))
    /\ Answered(LastCall(p))
    /\ \/ LastCall(p).out.code # 200
       \/ /\ Parseable(LastCall(p))
          /\ ~HasMatch(LastCall(p), inbound[p].username)
          /\ ShortPage(LastCall(p))
ReverseTranslation(x) ==
    CASE x = "pull" -> "read" [] x = "push" -> "write" [] OTHER -> x

(***************************************************************************)
(* C4 as claimed.  PATCH collaborator, check answered 404, invitation I    *)
(* found: the upstream PATCH /invitations/I carries the inbound body with  *)
(* `permission` removed and a string `permissions` added that holds the    *)
(* reverse translation, all other keys unchanged; upstream 200 -> 202 with *)
(* a JSON message.                                                         *)
(***************************************************************************)
C4_TranslatedBody(p, c) ==
    LET in == inbound[p].body.val.o
        sent == c.req.body
    IN
    /\ ~IsRaw(sent) /\ IsObj(sent.val)
    /\ DOMAIN sent.val.o = ((DOMAIN in) \ {"permission"}) \cup {"permissions"}
    /\ IsStr(sent.val.o["permissions"])
    /\ IsStr(in["permission"]) =>
          sent.val.o["permissions"] = JStr(ReverseTranslation(in["permission"].s))
    /\ \A k \in (DOMAIN in) \ {"permission", "permissions"} : sent.val.o[k] = in[k]

C4_InvitationPatch(p, i) ==
    LET c == calls[p][i]
        r == inbound[p]
    IN
    /\ i >= 3
    /\ HasMatch(calls[p][i - 1], r.username)
    /\ c.req.url = InvitationURL(r.owner, r.repo, FirstMatch(calls[p][i - 1], r.username).id)
    /\ (Answered(c) /\ c.out.code = 200) => (w[p].code = 202 /\ SentMessage(p))

C4_Original ==
    \A p \in Procs : (inbound[p].method = "PATCH" /\ CheckReturned(p, 404)) =>
       \A i \in 1..Len(calls[p]) : calls[p][i].req.method = "PATCH" =>
          /\ C4_InvitationPatch(p, i)
          /\ C4_TranslatedBody(p, calls[p][i])

(***************************************************************************)
(* C4 amended.  As claimed when the inbound `permission` is a JSON string; *)
(* when it is present but not a string, the PATCH /invitations/I carries   *)
(* the inbound body unchanged (`permission` kept, no `permissions` added). *)
(***************************************************************************)
C4_InvitationBody ==
    \A p \in Procs : (inbound[p].method = "PATCH" /\ CheckReturned(p, 404)) =>
       /\ pc[p] = "updateInvitation" => HasMatch(LastCall(p), inbound[p].username)
       /\ \A i \in 1..Len(calls[p]) : calls[p][i].req.method = "PATCH" =>
            /\ C4_InvitationPatch(p, i)
            /\ IF IsStr(inbound[p].body.val.o["permission"])
               THEN C4_TranslatedBody(p, calls[p][i])
               ELSE calls[p][i].req.body = inbound[p].body

C4_Witness ==
    \E p \in Procs :
       /\ inbound[p].method = "PATCH"
       /\ Len(calls[p]) = 4
       /\ LastCall(p).req.method = "PATCH"
       /\ DOMAIN inbound[p].body.val.o = {"permission", "permissions", "note"}
       /\ LastCall(p).req.body.val.o["permissions"] = JStr("read")
       /\ Answered(LastCall(p)) /\ LastCall(p).out.code = 200
       /\ w[p].code = 202

(***************************************************************************)
(* C5.  DELETE collaborator: check 204 -> DELETE /collaborators/{username},*)
(* 200 with a JSON message if that returns 204; check 404 and invitation I *)
(* found -> DELETE /invitations/I, 202 with a JSON message if that returns *)
(* 204.  One invocation never deletes both.                                *)
(***************************************************************************)
C5_DeleteBranches ==
    \A p \in Procs : inbound[p].method = "DELETE" =>
       LET r == inbound[p]
           mutating == {i \in 1..Len(calls[p]) : IsMutatingCall(calls[p][i])}
       IN
       /\ Cardinality(mutating) <= 1
       /\ \A i \in mutating : i = Len(calls[p]) /\ calls[p][i].req.method = "DELETE"
       /\ CheckReturned(p, 204) =>
            /\ pc[p] \in {"removeCollaborator", "done"}
            /\ pc[p] = "done" =>
                 /\ Len(calls[p]) = 2
                 /\ calls[p][2].req.method = "DELETE"
                 /\ calls[p][2].req.url = CollaboratorURL(r.owner, r.repo, r.username)
                 /\ (Answered(calls[p][2]) /\ calls[p][2].out.code = 204) =>
                       (w[p].code = 200 /\ SentMessage(p))
       /\ CheckReturned(p, 404) =>
            /\ \A i \in mutating :
                 /\ i >= 3
                 /\ HasMatch(calls[p][i - 1], r.username)
                 /\ calls[p][i].req.url.res = "invitations/{id}"
                 /\ calls[p][i].req.url.owner = r.owner
                 /\ calls[p][i].req.url.repo = r.repo
                 /\ calls[p][i].req.url.id = FirstMatch(calls[p][i - 1], r.username).id
                 /\ (Answered(calls[p][i]) /\ calls[p][i].out.code = 204) =>
                       (w[p].code = 202 /\ SentMessage(p))
            /\ (pc[p] = "done" /\ \E i \in 1..Len(calls[p]) : HasMatch(calls[p][i], r.username))
                 => mutating # {}
       /\ ~CheckReturned(p, 204) /\ ~CheckReturned(p, 404) => mutating = {}

C5_Witness ==
    \E p \in Procs :
       /\ inbound[p].method = "DELETE"
       /\ CheckReturned(p, 404)
       /\ Len(calls[p]) = 3
       /\ LastCall(p).req.method = "DELETE"
       /\ LastCall(p).req.url.id = 2
       /\ Answered(LastCall(p)) /\ LastCall(p).out.code = 204
       /\ w[p].code = 202

(***************************************************************************)
(* C6.  PATCH and DELETE collaborator: check answered 404 and the locator  *)
(* reports no invitation -> 404 with a JSON body whose message names the   *)
(* username, and no PUT, PATCH or DELETE has been sent upstream.           *)
(***************************************************************************)
C6_NoInvitationIs404 ==
    \A p \in Procs :
       (inbound[p].method \in {"PATCH", "DELETE"} /\ CheckReturned(p, 404)
        /\ ReportsNoInvitation(p)) =>
          /\ pc[p] = "done"
          /\ w[p].code = 404
          /\ SentMessage(p)
          /\ MessageOf(p).username = inbound[p].username
          /\ \A i \in 1..Len(calls[p]) : ~IsMutatingCall(calls[p][i])

C6_Witness ==
    \E p \in Procs :
       /\ inbound[p].method = "PATCH"
       /\ CheckReturned(p, 404)
       /\ ReportsNoInvitation(p)
       /\ LastCall(p).out.code = 200
       /\ Len(Records(LastCall(p))) = 1
       /\ w[p].code = 404

(***************************************************************************)
(* C7.  Collaborator-status resolver: 204 -> Collaborator, 404 ->          *)
(* NotCollaborator, both without error; any other status or a transport    *)
(* failure is an error, on which GET, PATCH and DELETE answer 500 and send *)
(* nothing more upstream.                                                  *)
(***************************************************************************)
C7_StatusResolver ==
    \A p \in Procs :
       (/\ inbound[p].route = "collaborator"
        /\ inbound[p].method \in {"GET", "PATCH", "DELETE"}
        /\ Len(calls[p]) >= 1) =>
          LET c == calls[p][1] IN
          /\ IsCheckCall(p, c)
          /\ (IsErr(c.out) \/ c.out.code \notin {204, 404}) =>
                (pc[p] = "done" /\ w[p].code = 500 /\ Len(calls[p]) = 1)
          /\ (CheckReturned(p, 204) /\ Len(calls[p]) = 1) =>
                pc[p] = CASE inbound[p].method = "GET" -> "permission"
                          [] inbound[p].method = "PATCH" -> "updateCollaboratorPermission"
                          [] OTHER -> "removeCollaborator"
          /\ (CheckReturned(p, 404) /\ Len(calls[p]) = 1) =>
                IF inbound[p].method = "GET" THEN pc[p] = "done" /\ w[p].code = 404
                ELSE pc[p] = "page"

C7_Witness ==
    \E p \in Procs :
       /\ inbound[p].method = "DELETE"
       /\ Len(calls[p]) = 1
       /\ Answered(calls[p][1]) /\ calls[p][1].out.code = 403
       /\ pc[p] = "done"
       /\ w[p].code = 500

(***************************************************************************)
(* C8.  Invitation locator, page sequence: pages 1, 2, 3, ... are          *)
(* requested in order without gaps, each with per_page=30; the search      *)
(* stops at the first page that holds a match, holds fewer than 30         *)
(* records, or is answered with a non-200 status, so the number of fetches *)
(* is the number of that page: N fetches and "not found" when pages        *)
(* 1..N-1 are full without a match and page N is short without a match, 2  *)
(* fetches when the first match is on page 2.                              *)
(***************************************************************************)
C8_PageSequence ==
    \A p \in Procs :
       LET pg == PageCalls(p)
           u == inbound[p].username
           n == Len(pg)
       IN
       /\ \A k \in 1..n :
             /\ pg[k].req.method = "GET"
             /\ pg[k].req.url.res = "invitations"
             /\ pg[k].req.url.owner = inbound[p].owner
             /\ pg[k].req.url.repo = inbound[p].repo
             /\ pg[k].req.url.page = k
             /\ pg[k].req.url.perPage = 30
       /\ \A k \in 1..(n - 1) : ~StopPage(pg[k], u) /\ ~FailedPage(pg[k])
       /\ (n > 0 /\ pc[p] = "page") => (~StopPage(pg[n], u) /\ ~FailedPage(pg[n]))
       /\ (n > 0 /\ pc[p] # "page") => (StopPage(pg[n], u) \/ FailedPage(pg[n]))
       /\ (n > 0 /\ pc[p] # "page" /\ ShortPage(pg[n]) /\ ~HasMatch(pg[n], u)) =>
             (pc[p] = "done" /\ w[p].code = 404 /\ LastCall(p) = pg[n])

C8_Witness ==
    \E p \in Procs :
       /\ Len(PageCalls(p)) = 2
       /\ Len(Records(PageCalls(p)[1])) = 30
       /\ HasMatch(PageCalls(p)[2], inbound[p].username)
       /\ pc[p] = "updateInvitation"

(***************************************************************************)
(* C9.  Invitation locator, failure asymmetry: a non-200 answer to a page  *)
(* fetch ends the search as "not found" without error (PATCH / DELETE      *)
(* answer 404); a transport failure of a page fetch ends it with an error  *)
(* (PATCH / DELETE answer 500); no later page is fetched in either case.   *)
(***************************************************************************)
C9_LocatorFailureAsymmetry ==
    \A p \in Procs : \A i \in 1..Len(calls[p]) :
       IsPageCall(calls[p][i]) =>
          /\ (Answered(calls[p][i]) /\ calls[p][i].out.code # 200) =>
                (i = Len(calls[p]) /\ pc[p] = "done" /\ w[p].code = 404)
          /\ IsErr(calls[p][i].out) =>
                (i = Len(calls[p]) /\ pc[p] = "done" /\ w[p].code = 500)

C9_Witness ==
    \E p \in Procs :
       /\ Len(PageCalls(p)) = 2
       /\ Answered(LastCall(p))
       /\ LastCall(p).out.code = 403
       /\ HasMatch([out |-> Answer(200, LastCall(p).out.body)], inbound[p].username)
       /\ pc[p] = "done"
       /\ w[p].code = 404

(***************************************************************************)
(* C10.  Invitation locator, result: a found invitation is the first one   *)
(* in scan order (lowest page, earliest position in the page) whose        *)
(* invitee login equals the username ignoring letter case; "not found" is  *)
(* reported only if no invitation on the scanned pages matches that way.   *)
(***************************************************************************)
C10_FirstMatchReturned ==
    \A p \in Procs :
       LET pg == PageCalls(p)
           u == inbound[p].username
           n == Len(pg)
       IN
       /\ pc[p] \in {"updateInvitation", "cancelInvitation"} =>
             /\ n > 0
             /\ HasMatch(pg[n], u)
             /\ loc[p].inv = FirstMatch(pg[n], u)
             /\ \A k \in 1..(n - 1) : ~HasMatch(pg[k], u)
       /\ (pc[p] = "done" /\ n > 0 /\ IsPageCall(LastCall(p)) /\ w[p].code = 404) =>
             \A k \in 1..n : ~HasMatch(pg[k], u)
       /\ (n > 0 /\ HasMatch(pg[n], u)) => ~(IsPageCall(LastCall(p)) /\ pc[p] = "done")

C10_Witness ==
    \E p \in Procs :
       /\ pc[p] = "cancelInvitation"
       /\ Len(PageCalls(p)) = 2
       /\ Cardinality(MatchesOn(LastCall(p), inbound[p].username)) = 2
       /\ Len(Records(LastCall(p))) = 31
       /\ loc[p].inv.id = 2

(***************************************************************************)
(* Vocabulary of the GET properties.                                       *)
(***************************************************************************)
ForwardTranslation(x) ==
    CASE x = "read" -> "pull" [] x = "write" -> "push" [] OTHER -> x
\* the GET handler of slot p has answered after a permission fetch that was
\* answered by the upstream
PermissionFetched(p) ==
    /\ inbound[p].route = "collaborator"
    /\ inbound[p].method = "GET"
    /\ pc[p] = "done"
    /\ CheckReturned(p, 204)
    /\ Len(calls[p]) = 2
    /\ IsPermissionCall(calls[p][2])
    /\ Answered(calls[p][2])
UpstreamPermission(p) == calls[p][2].out.body
\* a JSON object with user.permissions, user.html_url, user.id and a string role_name
FullPermissionBody(b) ==
    /\ ~IsRaw(b) /\ IsObj(b.val)
    /\ {"user", "role_name"} \subseteq DOMAIN b.val.o
    /\ IsObj(b.val.o["user"])
    /\ {"permissions", "html_url", "id"} \subseteq DOMAIN b.val.o["user"].o
    /\ IsStr(b.val.o["role_name"])
\* the response is one JSON object sent as application/json
SentObject(p) ==
    /\ w[p].sentCT = "application/json"
    /\ Len(w[p].body) = 1
    /\ "val" \in DOMAIN w[p].body[1]
    /\ IsObj(w[p].body[1].val)
ObjectOf(p) == w[p].body[1].val.o
NormalizedResponse(p) ==
    LET up == UpstreamPermission(p).val.o IN
    /\ w[p].code = 200
    /\ SentObject(p)
    /\ DOMAIN up \subseteq DOMAIN ObjectOf(p)
    /\ \A k \in (DOMAIN up) \ {"permissions", "html_url", "id", "permission", "message"} :
          ObjectOf(p)[k] = up[k]
    /\ {"permissions", "html_url", "id", "permission", "message"} \subseteq DOMAIN ObjectOf(p)
    /\ ObjectOf(p)["permissions"] = up["user"].o["permissions"]
    /\ ObjectOf(p)["html_url"] = up["user"].o["html_url"]
    /\ ObjectOf(p)["id"] = up["user"].o["id"]
    /\ ObjectOf(p)["permission"] = JStr(ForwardTranslation(up["role_name"].s))

(***************************************************************************)
(* C11 as claimed.  GET collaborator permission, check answered 204 and    *)
(* the permission fetch answered with a JSON object holding                *)
(* user.permissions, user.html_url, user.id and a string role_name r: the  *)
(* caller receives 200, application/json, a body that keeps every upstream *)
(* root key, has root permissions / html_url / id taken from user, has     *)
(* permission = translation of r, and has a message.                       *)
(***************************************************************************)
C11_Original ==
    \A p \in Procs :
       (PermissionFetched(p) /\ FullPermissionBody(UpstreamPermission(p))) =>
          NormalizedResponse(p)

(***************************************************************************)
(* C11 amended.  The same, for a role_name r that is a non-empty string.   *)
(***************************************************************************)
C11_GetNormalizes ==
    \A p \in Procs :
       (/\ PermissionFetched(p)
        /\ FullPermissionBody(UpstreamPermission(p))
        /\ UpstreamPermission(p).val.o["role_name"].s # "") =>
          NormalizedResponse(p)

C11_Witness ==
    \E p \in Procs :
       /\ PermissionFetched(p)
       /\ FullPermissionBody(UpstreamPermission(p))
       /\ UpstreamPermission(p).val.o["role_name"].s = "write"
       /\ w[p].code = 200
       /\ SentObject(p)
       /\ ObjectOf(p)["permission"] = JStr("push")
       /\ "message" \in DOMAIN ObjectOf(p)

UpstreamLevels == {"read", "write", "admin", "maintain", "triage"}
PluginLevels == {"pull", "push", "admin", "maintain", "triage"}

OtherLevels == {"custom", "owner", "Read", "WRITE", ""}

(***************************************************************************)
(* C13.  The permission translation is a bijection between the five        *)
(* upstream levels {read, write, admin, maintain, triage} and the five     *)
(* plugin levels {pull, push, admin, maintain, triage}: the forward map    *)
(* (role_name -> permission, applied by GET) and the reverse map           *)
(* (permission -> permissions, applied to invitation updates) are inverse  *)
(* to each other on these sets, and the forward map leaves every value     *)
(* outside them unchanged.  Stated on the two maps and on every response   *)
(* and upstream request they produced.                                     *)
(***************************************************************************)
C13_TranslationBijective ==
    /\ \A r \in UpstreamLevels :
          /\ RoleToPermission(r) \in PluginLevels
          /\ PermissionToPermissions(RoleToPermission(r)) = r
    /\ \A q \in PluginLevels :
          /\ PermissionToPermissions(q) \in UpstreamLevels
          /\ RoleToPermission(PermissionToPermissions(q)) = q
    /\ \A x \in OtherLevels \cup (PluginLevels \ UpstreamLevels) : RoleToPermission(x) = x
    /\ \A p \in Procs :
          /\ (/\ PermissionFetched(p)
              /\ FullPermissionBody(UpstreamPermission(p))
              /\ UpstreamPermission(p).val.o["role_name"].s \in UpstreamLevels) =>
                /\ SentObject(p)
                /\ IsStr(ObjectOf(p)["permission"])
                /\ ReverseTranslation(ObjectOf(p)["permission"].s)
                      = UpstreamPermission(p).val.o["role_name"].s
          /\ \A i \in 1..Len(calls[p]) :
                (/\ inbound[p].method = "PATCH"
                 /\ calls[p][i].req.method = "PATCH"
                 /\ IsStr(inbound[p].body.val.o["permission"])
                 /\ inbound[p].body.val.o["permission"].s \in PluginLevels) =>
                   /\ IsStr(calls[p][i].req.body.val.o["permissions"])
                   /\ ForwardTranslation(calls[p][i].req.body.val.o["permissions"].s)
                         = inbound[p].body.val.o["permission"].s

C13_Witness ==
    \E p \in Procs :
       /\ inbound[p].method = "PATCH"
       /\ Len(calls[p]) >= 3
       /\ LastCall(p).req.method = "PATCH"
       /\ inbound[p].body.val.o["permission"] = JStr("push")
       /\ LastCall(p).req.body.val.o["permissions"] = JStr("write")
       /\ RoleToPermission("write") = "push"

(***************************************************************************)
(* Vocabulary of the team-repository properties.                           *)
(***************************************************************************)
IsTeamRepo(p) == inbound[p].route = "teamrepository"
\* the team-repository handler of slot p has got an answer from the upstream
TeamRepoAnswered(p) ==
    /\ IsTeamRepo(p)
    /\ Len(calls[p]) = 1
    /\ Answered(calls[p][1])
\* a JSON object with a string role_name
RepositoryBody(b) ==
    /\ ~IsRaw(b) /\ IsObj(b.val)
    /\ "role_name" \in DOMAIN b.val.o
    /\ IsStr(b.val.o["role_name"])
\* the response of slot p is the upstream object rewritten, with `permission`
\* set to perm
TeamRepoRewritten(p, perm) ==
    LET up == calls[p][1].out.body.val.o IN
    /\ pc[p] = "done"
    /\ w[p].code = 200
    /\ Len(w[p].body) = 1
    /\ "val" \in DOMAIN w[p].body[1]
    /\ IsObj(w[p].body[1].val)
    /\ DOMAIN ObjectOf(p) = ((DOMAIN up) \ {"permissions"}) \cup {"owner", "permission"}
    /\ ObjectOf(p)["owner"] = JStr(inbound[p].owner)
    /\ ObjectOf(p)["permission"] = JStr(perm)
    /\ \A k \in (DOMAIN up) \ {"owner", "permissions", "permission"} : ObjectOf(p)[k] = up[k]
TeamRepoStatusForwarded(p) ==
    calls[p][1].out.code # 200 => (pc[p] = "done" /\ w[p].code = calls[p][1].out.code)

CarriesCredential(c, a) ==
    IF a # ""
    THEN "Authorization" \in DOMAIN c.req.header /\ c.req.header["Authorization"] = a
    ELSE "Authorization" \notin DOMAIN c.req.header
C16_CredentialForwarding ==
    \A p \in Procs : \A i \in 1..Len(calls[p]) :
       /\ CarriesCredential(calls[p][i], inbound[p].auth)
       /\ \A q \in Procs \ {p} :
             (inbound[q].auth # "" /\ inbound[q].auth # inbound[p].auth) =>
                \A k \in DOMAIN calls[p][i].req.header :
                   calls[p][i].req.header[k] # inbound[q].auth

C16_Witness ==
    /\ inbound[1].auth = "token A"
    /\ inbound[2].auth = "token B"
    /\ inbound[1].method = "PATCH" /\ pc[1] = "updateInvitation"
    /\ IsTeamRepo(2) /\ pc[2] = "done"
    /\ Len(calls[1]) = 3
    /\ \A i \in 1..3 : calls[1][i].req.header["Authorization"] = "token A"
    /\ calls[2][1].req.header["Authorization"] = "token B"

(***************************************************************************)
(* C17.  Inbound validation precedes every upstream call: a POST or PATCH  *)
(* collaborator whose body is not a JSON object or has no `permission` key *)
(* issues no upstream request and is answered 400 (POST) or 500 (PATCH).   *)
(***************************************************************************)
InvalidBody(b) ==
    \/ IsRaw(b)
    \/ ~IsObj(b.val)
    \/ "permission" \notin DOMAIN b.val.o
C17_ValidationFirst ==
    \A p \in Procs :
       (/\ inbound[p].route = "collaborator"
        /\ inbound[p].method \in {"POST", "PATCH"}
        /\ InvalidBody(inbound[p].body)) =>
          /\ Len(calls[p]) = 0
          /\ pc[p] \in {"start", "done"}
          /\ pc[p] = "done" =>
                /\ w[p].code = IF inbound[p].method = "POST" THEN 400 ELSE 500
                /\ Len(w[p].body) = 1

C17_Witness ==
    \E p \in Procs :
       /\ inbound[p].method = "PATCH"
       /\ ~IsRaw(inbound[p].body)
       /\ IsObj(inbound[p].body.val)
       /\ DOMAIN inbound[p].body.val.o = {"other_field"}
       /\ pc[p] = "done"
       /\ w[p].code = 500
       /\ Len(calls[p]) = 0

(***************************************************************************)
(* C18.  Upstream errors of the mutating call are forwarded: in POST,      *)
(* PATCH and DELETE collaborator, when the mutating upstream request is    *)
(* answered with a status S other than the success status of its branch,   *)
(* the caller receives status S and, when the upstream body is not empty,  *)
(* that same body.                                                         *)
(***************************************************************************)
SuccessStatus(p, c) ==
    CASE inbound[p].method = "POST" -> 201
      [] inbound[p].method = "PATCH" /\ c.req.method = "PUT" -> 204
      [] inbound[p].method = "PATCH" /\ c.req.method = "PATCH" -> 200
      [] OTHER -> 204
C18_MutationErrorForwarded ==
    \A p \in Procs : \A i \in 1..Len(calls[p]) :
       (/\ inbound[p].route = "collaborator"
        /\ IsMutatingCall(calls[p][i])
        /\ Answered(calls[p][i])
        /\ calls[p][i].out.code # SuccessStatus(p, calls[p][i])) =>
          /\ i = Len(calls[p])
          /\ pc[p] = "done"
          /\ w[p].code = calls[p][i].out.code
          /\ calls[p][i].out.body # NoBody => w[p].body = <<calls[p][i].out.body>>

C18_Witness ==
    \E p \in Procs :
       /\ inbound[p].method = "DELETE"
       /\ Len(calls[p]) = 3
       /\ LastCall(p).req.method = "DELETE"
       /\ Answered(LastCall(p))
       /\ LastCall(p).out = Answer(403, ErrDoc)
       /\ w[p].code = 403
       /\ w[p].body = <<ErrDoc>>

(***************************************************************************)
(* C19.  GET collaborator permission forwards an upstream error of the     *)
(* permission fetch: when the check answered 204 and the permission fetch  *)
(* is answered with a status S other than 200, the caller receives status  *)
(* S with the upstream body; 200 only when the fetch itself returned 200.  *)
(***************************************************************************)
C19_PermissionErrorForwarded ==
    \A p \in Procs :
       PermissionFetched(p) =>
          /\ w[p].code = calls[p][2].out.code
          /\ calls[p][2].out.code # 200 => w[p].body = <<calls[p][2].out.body>>

(***************************************************************************)
(* C20.  In every orchestrator (GET, POST, PATCH, DELETE collaborator and  *)
(* GET team-repository) a transport failure of an upstream call makes the  *)
(* handler answer 500 with an error message and issue no further upstream  *)
(* request.                                                                *)
(***************************************************************************)
C20_TransportFailureIs500 ==
    \A p \in Procs : \A i \in 1..Len(calls[p]) :
       IsErr(calls[p][i].out) =>
          /\ i = Len(calls[p])
          /\ pc[p] = "done"
          /\ w[p].code = 500
          /\ Len(w[p].body) = 1
          /\ "text" \in DOMAIN w[p].body[1]

(***************************************************************************)
(* C21.  Normalization fallback of GET collaborator permission: when the   *)
(* check answered 204 and the fetched permission body cannot be normalized *)
(* (it cannot be flattened, or it yields no `permission` to read), the     *)
(* handler still answers: the caller receives 200 with exactly the bytes   *)
(* of the upstream body, never a partially normalized body.                *)
(***************************************************************************)
\* user.permissions, user.html_url and user.id can be hoisted
Flattenable(b) ==
    /\ ~IsRaw(b) /\ IsObj(b.val)
    /\ "user" \in DOMAIN b.val.o
    /\ IsObj(b.val.o["user"])
    /\ {"permissions", "html_url", "id"} \subseteq DOMAIN b.val.o["user"].o
\* the body has a `permission` after the role translation
YieldsPermission(b) ==
    \/ "permission" \in DOMAIN b.val.o
    \/ /\ "role_name" \in DOMAIN b.val.o
       /\ IsStr(b.val.o["role_name"])
       /\ b.val.o["role_name"].s # ""
NormalizationFails(b) == ~Flattenable(b) \/ ~YieldsPermission(b)

C21_NormalizationFallback ==
    \A p \in Procs :
       /\ (/\ inbound[p].route = "collaborator" /\ inbound[p].method = "GET"
           /\ Len(calls[p]) = 2 /\ Answered(calls[p][2])) => pc[p] = "done"
       /\ (PermissionFetched(p) /\ NormalizationFails(UpstreamPermission(p))) =>
             /\ w[p].code = 200
             /\ w[p].body = <<UpstreamPermission(p)>>

C21_Witness ==
    \E p \in Procs :
       /\ PermissionFetched(p)
       /\ UpstreamPermission(p) = Doc(FALSE, JObj("user" :> UserObj(PermsObj)))
       /\ calls[p][2].out.code = 200
       /\ w[p].code = 200
       /\ w[p].body = <<UpstreamPermission(p)>>

(***************************************************************************)
(* C22.  Whenever a handler has written a JSON body (a success message, a  *)
(* normalized body or a forwarded upstream error body), the response was   *)
(* sent with the header Content-Type: application/json: the header was in  *)
(* the header map when the status line was committed.                      *)
(***************************************************************************)
WroteJSON(p) == \E i \in 1..Len(w[p].body) : "val" \in DOMAIN w[p].body[i]
JSONContentTypes == {"application/json", "application/json; charset=utf-8"}

C22_ContentTypeBeforeStatus ==
    \A p \in Procs :
       (pc[p] = "done" /\ WroteJSON(p)) => w[p].sentCT \in JSONContentTypes

(***************************************************************************)
(* Vocabulary of the flattening properties: a source path resolves in a    *)
(* JSON value when every part of it names a key of the object reached so   *)
(* far; PathValue is the value it then leads to.                           *)
(***************************************************************************)
RECURSIVE PathResolves(_, _)
PathResolves(v, path) ==
    \/ path = <<>>
    \/ /\ IsObj(v)
       /\ Head(path) \in DOMAIN v.o
       /\ PathResolves(v.o[Head(path)], Tail(path))
RECURSIVE PathValue(_, _)
PathValue(v, path) == IF path = <<>> THEN v ELSE PathValue(v.o[Head(path)], Tail(path))
FlattenTargets == { flat.mappings[i].tgt : i \in 1..Len(flat.mappings) }
LastMappingTo(t) ==
    CHOOSE i \in 1..Len(flat.mappings) :
       /\ flat.mappings[i].tgt = t
       /\ \A j \in (i + 1)..Len(flat.mappings) : flat.mappings[j].tgt # t
FlattenedObject(b) == ~IsRaw(b) /\ IsObj(b.val)

(***************************************************************************)
(* C23.  FlattenBytes on an input object with a mapping list whose source  *)
(* paths all resolve: the output is an object that holds every root key of *)
(* the input that is no target with its input value, and every target with *)
(* the value its source path leads to, the last mapping to a target        *)
(* winning and a target overwriting a root key of the same name; with no   *)
(* mapping the output object equals the input object.                      *)
(***************************************************************************)
C23_FlattenKeepsAndOverwrites ==
    (/\ flat.called
     /\ FlattenedObject(flat.body)
     /\ \A i \in 1..Len(flat.mappings) : PathResolves(flat.body.val, flat.mappings[i].src)) =>
        /\ flat.result.ok
        /\ FlattenedObject(flat.result.body)
        /\ LET in == flat.body.val.o
               out == flat.result.body.val.o
           IN /\ DOMAIN out = (DOMAIN in) \cup FlattenTargets
              /\ \A k \in (DOMAIN in) \ FlattenTargets : out[k] = in[k]
              /\ \A t \in FlattenTargets :
                    out[t] = PathValue(flat.body.val, flat.mappings[LastMappingTo(t)].src)
              /\ flat.mappings = <<>> => out = in

C23_Witness ==
    /\ flat.called
    /\ FlattenedObject(flat.body)
    /\ flat.mappings = << FieldMapping(<<"user", "login">>, "id"), FieldMapping(<<"user", "id">>, "id") >>
    /\ {"id", "a"} \subseteq DOMAIN flat.body.val.o
    /\ flat.body.val.o["id"] = JNum(99)
    /\ flat.result.ok
    /\ flat.result.body.val.o["id"] = JNum(7)
    /\ flat.result.body.val.o["a"] = JNum(1)

(***************************************************************************)
(* C24.  FlattenBytes is all-or-nothing: when the source path of any one   *)
(* mapping has a missing key or passes through a value that is not an      *)
(* object, the call returns an error and no output, also when the mappings *)
(* before it resolved.                                                     *)
(***************************************************************************)
C24_FlattenAllOrNothing ==
    (/\ flat.called
     /\ ~IsRaw(flat.body)
     /\ \E i \in 1..Len(flat.mappings) : ~PathResolves(flat.body.val, flat.mappings[i].src)) =>
        /\ ~flat.result.ok
        /\ flat.result.body = NoBody

C24_Witness ==
    /\ flat.called
    /\ FlattenedObject(flat.body)
    /\ flat.mappings = << FieldMapping(<<"user", "id">>, "t"), FieldMapping(<<"a", "x">>, "a") >>
    /\ PathResolves(flat.body.val, <<"user", "id">>)
    /\ "a" \in DOMAIN flat.body.val.o
    /\ ~flat.result.ok
    /\ flat.result.body = NoBody

(***************************************************************************)
(* One request served alone: the answer and the upstream state that the    *)
(* PATCH / DELETE orchestrators leave when nothing else touches the        *)
(* upstream between their round trips.                                     *)
(***************************************************************************)
RECURSIVE SerialLocate(_, _, _)
SerialLocate(r, s, page) ==
    LET out == GitHubAnswer(s, InvitationsRequest(r.owner, r.repo, PerPage, page, r.auth))
        res == findUserInvitationPage(out, r.username, PerPage)
    IN IF res.next /\ page < MaxPages THEN SerialLocate(r, s, page + 1) ELSE res

SerialMutation(r, s, req, okCode, okWriter) ==
    LET out == GitHubAnswer(s, req) IN
    [now |-> GitHubApply(s, req),
     w |-> IF out.code = okCode THEN okWriter ELSE ForwardUpstream(NewWriter, out)]

SerialPatch(r, s) ==
    LET permission == ReadFieldFromBody(r.body, "permission")
        check == checkCollaboratorStatus(
                    GitHubAnswer(s, makeGitHubRequest("GET",
                        CollaboratorURL(r.owner, r.repo, r.username), r.auth, NoBody)))
        res == SerialLocate(r, s, 1)
        correctedBody == CorrectGitHubUserPermissionsFieldReqBody(r.body)
    IN
    IF ~permission.ok
    THEN [now |-> s, w |-> writeErrorResponse(NewWriter, 500,
                               [msg |-> "Error reading permission from request body"])]
    ELSE IF check.err
    THEN [now |-> s, w |-> writeErrorResponse(NewWriter, 500,
                               [msg |-> "Error checking collaborator status"])]
    ELSE IF check.status = StatusCollaborator
    THEN SerialMutation(r, s,
            makeGitHubRequest("PUT", CollaboratorURL(r.owner, r.repo, r.username), r.auth, r.body),
            204,
            writeJSONResponse(NewWriter, 200,
                MessageBody([msg |-> "Permission updated successfully for collaborator with permission",
                             username |-> r.username, permission |-> SprintfS(permission.v)])))
    ELSE IF ~res.found
    THEN [now |-> s, w |-> NoInvitationRespond(NewWriter, r, res)]
    ELSE IF ~correctedBody.ok
    THEN [now |-> s, w |-> writeErrorResponse(NewWriter, 500,
                               [msg |-> "Error updating permission: failed to correct permissions field"])]
    ELSE SerialMutation(r, s,
            makeGitHubRequest("PATCH", InvitationURL(r.owner, r.repo, res.inv.id), r.auth,
                              correctedBody.body),
            200,
            writeJSONResponse(NewWriter, 202,
                MessageBody([msg |-> "Invitation permission updated successfully for user with permission",
                             username |-> r.username, permission |-> SprintfS(permission.v)])))

SerialDelete(r, s) ==
    LET check == checkCollaboratorStatus(
                    GitHubAnswer(s, makeGitHubRequest("GET",
                        CollaboratorURL(r.owner, r.repo, r.username), r.auth, NoBody)))
        res == SerialLocate(r, s, 1)
    IN
    IF check.err
    THEN [now |-> s, w |-> writeErrorResponse(NewWriter, 500,
                               [msg |-> "Error checking collaborator status"])]
    ELSE IF check.status = StatusCollaborator
    THEN SerialMutation(r, s,
            makeGitHubRequest("DELETE", CollaboratorURL(r.owner, r.repo, r.username), r.auth, NoBody),
            204,
            writeJSONResponse(NewWriter, 200,
                MessageBody([msg |-> "Collaborator removed successfully from repository",
                             username |-> r.username, owner |-> r.owner, repo |-> r.repo])))
    ELSE IF ~res.found
    THEN [now |-> s, w |-> NoInvitationRespond(NewWriter, r, res)]
    ELSE SerialMutation(r, s,
            makeGitHubRequest("DELETE", InvitationURL(r.owner, r.repo, res.inv.id), r.auth, NoBody),
            204,
            writeJSONResponse(NewWriter, 202,
                MessageBody([msg |-> "Invitation cancelled successfully for user",
                             username |-> r.username])))

SerialRun(r, s) == IF r.method = "PATCH" THEN SerialPatch(r, s) ELSE SerialDelete(r, s)

\* the outcome of serving the request of slot p, then the request of slot q
SerialOutcome(p, q) ==
    LET first == SerialRun(inbound[p], upstream.init)
        second == SerialRun(inbound[q], first.now)
    IN [now |-> second.now, w |-> (p :> first.w) @@ (q :> second.w)]
BothDone == \A p \in Procs : pc[p] = "done"
Outcome == [now |-> upstream.now, w |-> [p \in Procs |-> w[p]]]

(***************************************************************************)
(* C25.  Two collaborator requests for the same owner / repo / username    *)
(* run concurrently: whatever the interleaving of their upstream calls,    *)
(* the final upstream state and the two responses are those of one of the  *)
(* two serial executions of the same requests.                             *)
(***************************************************************************)
C25_Serializable ==
    BothDone => \/ Outcome = SerialOutcome(1, 2)
                \/ Outcome = SerialOutcome(2, 1)

(***************************************************************************)
(* C26.  Cancellation is transitive: every upstream request of a handler   *)
(* is bound to the context of the inbound request, and no upstream request *)
(* is started for an inbound request that has been cancelled.              *)
(***************************************************************************)
C26_CancellationTransitive ==
    \A p \in Procs : \A i \in 1..Len(calls[p]) :
       /\ calls[p][i].req.ctx = "inbound"
       /\ ~calls[p][i].cancelled

(***************************************************************************)
(* C27.  The running server hands every request of the exposed surface to  *)
(* an orchestrator: GET .../collaborators/{username}/permission, POST,     *)
(* PATCH and DELETE /repository/{owner}/{repo}/collaborators/{username}    *)
(* and GET /teamrepository/orgs/{org}/teams/{team_slug}/repos/{owner}/     *)
(* {repo} are all routed; the mux answers none of them itself.             *)
(***************************************************************************)
C27_EveryEndpointRouted ==
    \A p \in Procs :
       inbound[p].method # "" =>
          /\ inbound[p].route # ""
          /\ inbound[p].method = "GET" =>
                inbound[p].route = (IF inbound[p].org # "" THEN "teamrepository" ELSE "repository")
          /\ inbound[p].method \in {"POST", "PATCH", "DELETE"} =>
                inbound[p].route \in {"repository", "collaborator"}

(***************************************************************************)
(* C28.  Mutation guard of PATCH and DELETE collaborator: a mutating       *)
(* upstream request (PUT, PATCH or DELETE) is issued only after the        *)
(* collaborator check of the same invocation was answered 204 or 404, at   *)
(* most one mutating request is issued per inbound request, and an         *)
(* invitation is mutated only under the id of the first match on the page  *)
(* the locator fetched last in that invocation.                            *)
(***************************************************************************)
MutatingCalls(p) == {i \in 1..Len(calls[p]) : IsMutatingCall(calls[p][i])}
MutatesInvitation(c) == IsMutatingCall(c) /\ c.req.url.res = "invitations/{id}"

C28_MutationGuard ==
    \A p \in Procs : inbound[p].method \in {"PATCH", "DELETE"} =>
       /\ \A i \in MutatingCalls(p) :
             /\ i > 1
             /\ CheckReturned(p, 204) \/ CheckReturned(p, 404)
       /\ Cardinality(MutatingCalls(p)) <= 1
       /\ \A i \in MutatingCalls(p) : MutatesInvitation(calls[p][i]) =>
             /\ i >= 3
             /\ IsPageCall(calls[p][i - 1])
             /\ HasMatch(calls[p][i - 1], inbound[p].username)
             /\ calls[p][i].req.url.id = FirstMatch(calls[p][i - 1], inbound[p].username).id
             /\ calls[p][i].req.url.owner = inbound[p].owner
             /\ calls[p][i].req.url.repo = inbound[p].repo

\* a PATCH has mutated invitation 2, found on the second page after a first
\* page that held the invitation of another user
C28_Witness ==
    \E p \in Procs :
       /\ inbound[p].method = "PATCH" /\ pc[p] = "done"
       /\ CheckReturned(p, 404)
       /\ Len(calls[p]) = 4
       /\ MutatesInvitation(calls[p][4])
       /\ calls[p][4].req.url.id = 2
       /\ Parseable(calls[p][2])
       /\ \E k \in 1..Len(Records(calls[p][2])) : Records(calls[p][2])[k].id = 3

(***************************************************************************)
(* C29.  Invitation locator termination: a page answer that holds a match, *)
(* fewer than 30 records, a non-200 status, a transport error or an        *)
(* unparsable body ends the search with that fetch, so the search ends for *)
(* every upstream that gives such an answer at some page; against a        *)
(* collection of K invitations without a match, served in pages of 30, the *)
(* search performs exactly floor(K/30)+1 page fetches (one extra, empty    *)
(* page when K is a multiple of 30).                                       *)
(***************************************************************************)
RECURSIVE RecordsUpTo(_, _)
RecordsUpTo(pg, k) == IF k = 0 THEN 0 ELSE RecordsUpTo(pg, k - 1) + Len(Records(pg[k]))
EndsSearch(c, u) == StopPage(c, u) \/ FailedPage(c)
\* the length of page k of a collection of K records served in pages of 30
PageLength(K, k) ==
    LET rest == K - 30 * (k - 1) IN
    IF rest >= 30 THEN 30 ELSE IF rest > 0 THEN rest ELSE 0
\* the pages fetched are the consecutive pages of a collection without a match
ServedInPages(pg, u) ==
    /\ \A k \in 1..Len(pg) : Parseable(pg[k]) /\ ~HasMatch(pg[k], u)
    /\ \A k \in 1..Len(pg) : Len(Records(pg[k])) = PageLength(RecordsUpTo(pg, Len(pg)), k)

C29_LocatorEnds ==
    \A p \in Procs :
       LET pg == PageCalls(p)
           u == inbound[p].username
           n == Len(pg)
       IN
       /\ \A k \in 1..(n - 1) : ~EndsSearch(pg[k], u)
       /\ (n > 0 /\ EndsSearch(pg[n], u)) => pc[p] # "page"
       /\ (n > 0 /\ pc[p] # "page" /\ ServedInPages(pg, u)) =>
             n = (RecordsUpTo(pg, n) \div 30) + 1

C29_LocatorTermination ==
    /\ []C29_LocatorEnds
    /\ \A p \in Procs : (pc[p] = "page") ~> (pc[p] # "page")

\* a collection of exactly 30 invitations without a match: the search has ended
\* after a full first page and an empty second page
C29_Witness ==
    \E p \in Procs :
       LET pg == PageCalls(p) IN
       /\ pc[p] = "done" /\ w[p].code = 404
       /\ Len(pg) = 2
       /\ ServedInPages(pg, inbound[p].username)
       /\ Len(Records(pg[1])) = 30
       /\ Len(Records(pg[2])) = 0

(***************************************************************************)
(* C30.  Single response per request: every invocation of a collaborator   *)
(* handler or of the team-repository handler ends having committed exactly *)
(* one response status, the handler does not crash, and an error message   *)
(* written to the caller is the last thing written.                        *)
(***************************************************************************)
IsErrorMessage(chunk) == "text" \in DOMAIN chunk \/ "line" \in DOMAIN chunk

C30_SingleResponse ==
    \A p \in Procs :
       /\ pc[p] # "panic"
       /\ pc[p] = "done" => w[p].code # 0
       /\ \A i \in 1..(Len(w[p].body) - 1) : ~IsErrorMessage(w[p].body[i])

====
